---- MODULE Spec2Model ----
(***************************************************************************)
(* File-based job queue of contabotts: the queue handlers of the HTTP      *)
(* file server (src/file_server.py, create_job / claim_job / complete_job  *)
(* / fail_job) and the direct-filesystem LocalVideoQueue                   *)
(* (src/local_video_worker.py).  A queue is four directories of JSON       *)
(* files; every handler is modelled at the grain of its filesystem calls   *)
(* (directory listing, one file read, rename, file write, unlink).         *)
(*                                                                         *)
(* File names are strings built as the code builds them (the ".json"       *)
(* suffix, common to all names, is left implicit).  A job document is a    *)
(* function from the keys that are present to their values, as a Python    *)
(* dict.  datetime.now().isoformat() is modelled by an integer clock that  *)
(* moves forward at every reading: the ISO strings of one machine compare  *)
(* lexicographically as their instants do.                                 *)
(***************************************************************************)
EXTENDS Integers, Sequences, FiniteSets, TLC

VARIABLES pending, processing, completed, failed,   \* the four directories
          clock,                                    \* datetime.now()
          pc, call, loc, ret,                       \* one handler invocation per caller
          counters, flock,                          \* counters.json and the holder of its lock
          worker,                                   \* the main loop of a worker process
          local_queue,                              \* the directories of a LocalVideoQueue
          workers,                                  \* workers/{worker_type}/{worker_id}.json
          ghost                                     \* history, read by no handler

store == <<pending, processing, completed, failed>>
vars ==
  <<pending, processing, completed, failed, clock, pc, call, loc, ret, counters, flock, worker,
    local_queue, workers, ghost>>

----------------------------------------------------------------------------
(* Bounds *)
NumClaimers == 3     \* callers of the claim-only race
MaxOps == 4          \* handler invocations in one concurrent behaviour
MaxSeqOps == 5       \* handler invocations in one sequential behaviour
MaxRetryOps == 7     \* handler invocations in the life of one job

max_retries == 3

WorkerIds == {"w", "w_x"}
JobIds == {"a", "b", "x_a"}      \* ids a caller may supply
UuidPool == {"a", "b"}           \* values of uuid.uuid4(): no underscore
CorruptNames == {"bad"}          \* names of malformed files dropped into pending/
Priorities == {5}                \* a payload carries one of these or no priority
PayloadRetry == {2}              \* a payload carries one of these or no retry_count
Links == {"", "https://x"}       \* gofile_link of a complete request ("" = none)
Messages == {"boom", "oops"}     \* error_message of a fail request

Claimers == 1..NumClaimers       \* the callers of the claim race
Procs == {1, 2}                  \* the callers that run any handler concurrently
AllProcs == Claimers \cup Procs

----------------------------------------------------------------------------
(* Python dicts and directories *)
Empty == [x \in {} |-> 0]
Put(d, k, v) == [x \in DOMAIN d \cup {k} |-> IF x = k THEN v ELSE d[x]]
Del(d, k) == [x \in DOMAIN d \ {k} |-> d[x]]
Get(d, k, default) == IF k \in DOMAIN d THEN d[k] ELSE default

CorruptFile == Put(Empty, "corrupt", TRUE)
ParseableAny(content) == TRUE
Parseable(content) == "corrupt" \notin DOMAIN content

\* f"{worker_id}_{job_id}.json" / f"{worker_id}_{job_file.name}"
FileName(worker_id, job_id) == worker_id \o "_" \o job_id

\* the request bodies of create_job
Payloads ==
  { p \in [priority : Priorities \cup {-1}, retry_count : PayloadRetry \cup {-1},
           created_at : {-1, 0}] : TRUE }
PayloadDict(p) ==
  LET d1 == IF p.priority = -1 THEN Empty ELSE Put(Empty, "priority", p.priority)
      d2 == IF p.retry_count = -1 THEN d1 ELSE Put(d1, "retry_count", p.retry_count)
  IN IF p.created_at = -1 THEN d2 ELSE Put(d2, "created_at", p.created_at)

----------------------------------------------------------------------------
(* claim_job: sort key (-priority, created_at) and the stable list.sort *)
SortKeyLessAscending(x, y) ==
  LET px == Get(x[2], "priority", 0)
      py == Get(y[2], "priority", 0)
  IN \/ px < py
     \/ px = py /\ Get(x[2], "created_at", 0) < Get(y[2], "created_at", 0)

SortKeyLess(x, y) ==
  LET px == 0 - Get(x[2], "priority", 0)
      py == 0 - Get(y[2], "priority", 0)
  IN \/ px < py
     \/ px = py /\ Get(x[2], "created_at", 0) < Get(y[2], "created_at", 0)

RECURSIVE InsertSorted(_, _)
InsertSorted(x, s) ==
  IF s = <<>> THEN <<x>>
  ELSE IF SortKeyLess(Head(s), x) THEN <<Head(s)>> \o InsertSorted(x, Tail(s))
  ELSE <<x>> \o s

RECURSIVE SortJobs(_)
SortJobs(s) == IF s = <<>> THEN <<>> ELSE InsertSorted(Head(s), SortJobs(Tail(s)))

\* os.rename(src, dst) raises FileNotFoundError when src is gone
RenameNever(dir, name) == FALSE
RenameSucceeds(dir, name) == name \in DOMAIN dir

\* the source directory once os.rename has moved the file out of it
RenameFromCopy(dir, name) == dir
RenameFrom(dir, name) == Del(dir, name)

\* job_file.exists()
ExistsAlways(dir, name) == TRUE

Exists(dir, name) == name \in DOMAIN dir

----------------------------------------------------------------------------
NoCall == [op |-> "none", worker_id |-> "", job_id |-> "", arg |-> Empty]
NoLoc == [files |-> {}, jobs |-> <<>>, data |-> Empty, source |-> <<"", "">>]
NoRet == [status |-> "none", job |-> Empty]

CounterTypes == {"audio", "video"}
\* counters.json does not exist until reset_counters has written it
NoFile == Put(Empty, "absent", TRUE)

\* no worker process is running
NoWorker ==
  [ variant |-> "none", state |-> "off", job |-> Empty, await |-> 0, calls |-> 0,
    error |-> "",          \* str(e) of the exception process_job has caught
    temp |-> {},           \* the local temp files that exist
    jobs_failed |-> 0 ]    \* the worker's jobs_failed stat

\* no LocalVideoQueue has been constructed on directories of its own
NoQueue ==
  [ pending |-> Empty, processing |-> Empty, completed |-> Empty, failed |-> Empty,
    ret |-> NoRet,         \* what its latest call returned
    ncalls |-> 0 ]         \* the calls made on it

InitGhost ==
  [ nops |-> 0,                               \* handler invocations so far
    by |-> 0,                                 \* caller of the latest one (0: the producer)
    enq |-> [j \in JobIds |-> 0],            \* create_job calls per job id
    owner |-> Empty,                          \* processing file |-> <<claimer, pending name>>
    log |-> <<>>,                             \* the jobs claim_job returned, in order
    lost |-> {},                              \* names whose rename found no source
    foreign |-> {},                           \* <<op, worker_id, job_id, claimer, name>>: complete/fail
                                              \* that read a file claimed as another (worker, name)
    completedBy |-> {},                       \* <<worker_id, job_id>> of successful completes
    nfail |-> [j \in JobIds |-> 0],           \* successful fail calls per job id
    expect |-> [t \in CounterTypes |-> 0] ]   \* increments completed since the last completed reset

Init ==
  /\ pending = Empty /\ processing = Empty /\ completed = Empty /\ failed = Empty
  /\ clock = 1
  /\ counters = NoFile /\ flock = 0
  /\ worker = NoWorker
  /\ local_queue = NoQueue
  /\ workers = Empty
  /\ pc = [p \in AllProcs |-> "idle"]
  /\ call = [p \in AllProcs |-> NoCall]
  /\ loc = [p \in AllProcs |-> NoLoc]
  /\ ret = [p \in AllProcs |-> NoRet]
  /\ ghost = InitGhost

Idle(p) == pc[p] \in {"idle", "done"}

Finish(p, r) ==
  /\ pc' = [pc EXCEPT ![p] = "done"]
  /\ loc' = [loc EXCEPT ![p] = NoLoc]
  /\ ret' = [ret EXCEPT ![p] = r]

Begin(p, c, label, l) ==
  /\ Idle(p)
  /\ pc' = [pc EXCEPT ![p] = label]
  /\ call' = [call EXCEPT ![p] = c]
  /\ loc' = [loc EXCEPT ![p] = l]
  /\ ret' = [ret EXCEPT ![p] = NoRet]


Count(p, max) ==
  /\ ghost.nops < max
  /\ ghost' = [ghost EXCEPT !.nops = @ + 1, !.by = p]

\* ids that uuid.uuid4() can no longer return
UsedIds ==
  {j \in JobIds : ghost.enq[j] > 0} \cup DOMAIN pending \cup DOMAIN completed \cup DOMAIN failed

----------------------------------------------------------------------------
(* create_job: POST /queue/{type}/jobs *)
NewJob(payload, job_id, now) ==
  LET job == PayloadDict(payload)
      j1 == Put(job, "job_id", job_id)
      j2 == Put(j1, "created_at", now)
  IN Put(j2, "retry_count", Get(job, "retry_count", 0))

create_job(p, supplied, payload, uuids, max) ==
  /\ Idle(p)
  /\ ghost.nops < max
  /\ \E job_id \in (IF supplied = "" THEN uuids \ UsedIds ELSE {supplied}) :
       /\ pending' = Put(pending, job_id, NewJob(payload, job_id, clock))
       /\ call' = [call EXCEPT ![p] = [op |-> "enqueue", worker_id |-> "",
                                        job_id |-> supplied, arg |-> PayloadDict(payload)]]
       /\ Finish(p, [status |-> "ok", job |-> Put(Empty, "job_id", job_id)])
       /\ ghost' = [ghost EXCEPT !.nops = @ + 1, !.by = p, !.enq[job_id] = @ + 1]
  /\ clock' = clock + 1
  /\ UNCHANGED <<processing, completed, failed>>
  /\ UNCHANGED <<counters, flock, worker, local_queue, workers>>

\* a producer outside the engine leaves a malformed file in pending/
drop_corrupt(name, max) ==
  /\ name \notin DOMAIN pending
  /\ pending' = Put(pending, name, CorruptFile)
  /\ Count(0, max)
  /\ UNCHANGED <<processing, completed, failed, clock, pc, call, loc, ret>>
  /\ UNCHANGED <<counters, flock, worker, local_queue, workers>>

----------------------------------------------------------------------------
(* claim_job: POST /queue/{type}/claim, LocalVideoQueue.claim_job *)

\* pending_files = list(glob("*.json")); "No pending jobs" when empty
claim_job_list(p, worker_id, max) ==
  /\ Count(p, max)
  /\ IF DOMAIN pending = {}
     THEN /\ Idle(p)
          /\ call' = [call EXCEPT ![p] = [NoCall EXCEPT !.op = "claim", !.worker_id = worker_id]]
          /\ Finish(p, [status |-> "null", job |-> Empty])
     ELSE Begin(p, [NoCall EXCEPT !.op = "claim", !.worker_id = worker_id], "claim_read",
                [NoLoc EXCEPT !.files = DOMAIN pending])
  /\ UNCHANGED <<store, clock>>
  /\ UNCHANGED <<counters, flock, worker, local_queue, workers>>

\* one iteration of the reading loop; the list is sorted after the last one
claim_job_read(p) ==
  /\ pc[p] = "claim_read"
  /\ \E name \in loc[p].files :
       LET readable == name \in DOMAIN pending /\ Parseable(pending[name])
           jobs == IF readable THEN Append(loc[p].jobs, <<name, pending[name]>>)
                   ELSE loc[p].jobs
           rest == loc[p].files \ {name}
       IN IF rest # {}
          THEN /\ loc' = [loc EXCEPT ![p].files = rest, ![p].jobs = jobs]
               /\ UNCHANGED <<pc, ret>>
          ELSE IF jobs = <<>>
          THEN Finish(p, [status |-> "null", job |-> Empty])
          ELSE /\ loc' = [loc EXCEPT ![p].files = {}, ![p].jobs = SortJobs(jobs)]
               /\ pc' = [pc EXCEPT ![p] = "claim_rename"]
               /\ UNCHANGED ret
  /\ UNCHANGED <<store, clock, call, ghost>>
  /\ UNCHANGED <<counters, flock, worker, local_queue, workers>>

\* os.rename(pending/name, processing/{worker_id}_{name}) on the next candidate
claim_job_rename(p) ==
  /\ pc[p] = "claim_rename"
  /\ LET name == Head(loc[p].jobs)[1]
         job_data == Head(loc[p].jobs)[2]
         new_name == FileName(call[p].worker_id, name)
     IN IF RenameSucceeds(pending, name)
        THEN /\ processing' = Put(processing, new_name, pending[name])
             /\ pending' = RenameFrom(pending, name)
             /\ pc' = [pc EXCEPT ![p] = "claim_write"]
             /\ call' = [call EXCEPT ![p].job_id = name]
             /\ loc' = [loc EXCEPT ![p] = [NoLoc EXCEPT !.data = job_data]]
             /\ ghost' = [ghost EXCEPT !.owner = Put(@, new_name, <<call[p].worker_id, name>>)]
             /\ UNCHANGED ret
        ELSE /\ IF Tail(loc[p].jobs) = <<>>
                THEN Finish(p, [status |-> "null", job |-> Empty])
                ELSE /\ loc' = [loc EXCEPT ![p].jobs = Tail(@)]
                     /\ UNCHANGED <<pc, ret>>
             /\ ghost' = [ghost EXCEPT !.lost = @ \cup {name}]
             /\ UNCHANGED <<pending, processing, call>>
  /\ UNCHANGED <<completed, failed, clock>>
  /\ UNCHANGED <<counters, flock, worker, local_queue, workers>>

\* job_data gets worker_id and processing_started_at and is written to new_path
ClaimedJobNoWorker(job_data, worker_id, now) ==
  Put(job_data, "processing_started_at", now)
ClaimedJob(job_data, worker_id, now) ==
  Put(Put(job_data, "worker_id", worker_id), "processing_started_at", now)

claim_job_write(p) ==
  /\ pc[p] = "claim_write"
  /\ LET new_name == FileName(call[p].worker_id, call[p].job_id)
         job_data == ClaimedJob(loc[p].data, call[p].worker_id, clock)
     IN /\ processing' = Put(processing, new_name, job_data)
        /\ Finish(p, [status |-> "job", job |-> job_data])
        /\ ghost' = [ghost EXCEPT !.owner = Put(@, new_name, <<call[p].worker_id, call[p].job_id>>),
                                  !.log = Append(@, job_data)]
  /\ clock' = clock + 1
  /\ UNCHANGED <<pending, completed, failed, call>>
  /\ UNCHANGED <<counters, flock, worker, local_queue, workers>>

----------------------------------------------------------------------------
\* history: the call of p reads processing file name; who claimed that file?
Foreign(p, op, name) ==
  IF ghost.owner[name] = <<call[p].worker_id, call[p].job_id>> THEN {}
  ELSE {<<op, call[p].worker_id, call[p].job_id, ghost.owner[name][1], ghost.owner[name][2]>>}

(* complete_job: POST /queue/{type}/jobs/{job_id}/complete,
   LocalVideoQueue.complete_job *)

\* job_file = processing/{worker_id}_{job_id}.json; 404 when it does not exist
complete_job_exists(p, worker_id, job_id, gofile_link, max) ==
  /\ Count(p, max)
  /\ LET c == [op |-> "complete", worker_id |-> worker_id, job_id |-> job_id,
               arg |-> Put(Empty, "gofile_link", gofile_link)]
     IN IF Exists(processing, FileName(worker_id, job_id))
        THEN Begin(p, c, "complete_read", NoLoc)
        ELSE /\ Idle(p)
             /\ call' = [call EXCEPT ![p] = c]
             /\ Finish(p, [status |-> "notfound", job |-> Empty])
  /\ UNCHANGED <<store, clock>>
  /\ UNCHANGED <<counters, flock, worker, local_queue, workers>>

CompletedJobNoLink(job_data, gofile_link, now) ==
  Put(Put(job_data, "completed_at", now), "status", "completed")
CompletedJob(job_data, gofile_link, now) ==
  LET j1 == Put(job_data, "completed_at", now)
      j2 == IF gofile_link # "" THEN Put(j1, "gofile_link", gofile_link) ELSE j1
  IN Put(j2, "status", "completed")

\* json.load(open(job_file)), then the completion fields
complete_job_read(p) ==
  /\ pc[p] = "complete_read"
  /\ LET name == FileName(call[p].worker_id, call[p].job_id)
     IN IF name \in DOMAIN processing /\ Parseable(processing[name])
        THEN /\ loc' = [loc EXCEPT ![p].data =
                          CompletedJob(processing[name], call[p].arg["gofile_link"], clock)]
             /\ pc' = [pc EXCEPT ![p] = "complete_write"]
             /\ clock' = clock + 1
             /\ ghost' = [ghost EXCEPT !.foreign = @ \cup Foreign(p, "complete", name)]
             /\ UNCHANGED ret
        ELSE /\ Finish(p, [status |-> "error", job |-> Empty])
             /\ UNCHANGED <<clock, ghost>>
  /\ UNCHANGED <<store, call>>
  /\ UNCHANGED <<counters, flock, worker, local_queue, workers>>

\* json.dump(job_data, open(completed/{job_id}.json, "w"))
complete_job_write(p) ==
  /\ pc[p] = "complete_write"
  /\ completed' = Put(completed, call[p].job_id, loc[p].data)
  /\ pc' = [pc EXCEPT ![p] = "complete_unlink"]
  /\ UNCHANGED <<pending, processing, failed, clock, call, loc, ret, ghost>>
  /\ UNCHANGED <<counters, flock, worker, local_queue, workers>>

\* job_file.unlink()
complete_job_unlink(p) ==
  /\ pc[p] = "complete_unlink"
  /\ LET name == FileName(call[p].worker_id, call[p].job_id)
     IN IF name \in DOMAIN processing
        THEN /\ processing' = Del(processing, name)
             /\ Finish(p, [status |-> "ok", job |-> loc[p].data])
             /\ ghost' = [ghost EXCEPT !.completedBy = @ \cup {<<call[p].worker_id, call[p].job_id>>}]
        ELSE /\ Finish(p, [status |-> "error", job |-> Empty])
             /\ UNCHANGED <<processing, ghost>>
  /\ UNCHANGED <<pending, completed, failed, clock, call>>
  /\ UNCHANGED <<counters, flock, worker, local_queue, workers>>

----------------------------------------------------------------------------
(* fail_job: POST /queue/{type}/jobs/{job_id}/fail, LocalVideoQueue.fail_job *)

fail_job_exists(p, worker_id, job_id, error_message, max) ==
  /\ Count(p, max)
  /\ LET c == [op |-> "fail", worker_id |-> worker_id, job_id |-> job_id,
               arg |-> Put(Empty, "error_message", error_message)]
     IN IF Exists(processing, FileName(worker_id, job_id))
        THEN Begin(p, c, "fail_read", NoLoc)
        ELSE /\ Idle(p)
             /\ call' = [call EXCEPT ![p] = c]
             /\ Finish(p, [status |-> "notfound", job |-> Empty])
  /\ UNCHANGED <<store, clock>>
  /\ UNCHANGED <<counters, flock, worker, local_queue, workers>>

\* retry_count + 1 decides between failed/ and pending/
ExhaustedLate(retry_count) == retry_count > max_retries
Exhausted(retry_count) == retry_count >= max_retries

FailedJobRequeued(job_data, error_message, now) ==
  LET j1 == Put(job_data, "retry_count", Get(job_data, "retry_count", 0) + 1)
      j2 == Put(j1, "error_message", error_message)
      j3 == Put(Put(j2, "last_failed_at", now), "created_at", now)
  IN IF Exhausted(j3["retry_count"])
     THEN Put(j3, "status", "failed")
     ELSE Del(Del(Put(j3, "status", "pending"), "worker_id"), "processing_started_at")
FailedJobKeepWorker(job_data, error_message, now) ==
  LET j1 == Put(job_data, "retry_count", Get(job_data, "retry_count", 0) + 1)
      j2 == Put(j1, "error_message", error_message)
      j3 == Put(j2, "last_failed_at", now)
  IN IF Exhausted(j3["retry_count"])
     THEN Put(j3, "status", "failed")
     ELSE Put(j3, "status", "pending")
FailedJob(job_data, error_message, now) ==
  LET j1 == Put(job_data, "retry_count", Get(job_data, "retry_count", 0) + 1)
      j2 == Put(j1, "error_message", error_message)
      j3 == Put(j2, "last_failed_at", now)
  IN IF Exhausted(j3["retry_count"])
     THEN Put(j3, "status", "failed")
     ELSE Del(Del(Put(j3, "status", "pending"), "worker_id"), "processing_started_at")

fail_job_read(p) ==
  /\ pc[p] = "fail_read"
  /\ LET name == FileName(call[p].worker_id, call[p].job_id)
     IN IF name \in DOMAIN processing /\ Parseable(processing[name])
        THEN /\ loc' = [loc EXCEPT ![p].data =
                          FailedJob(processing[name], call[p].arg["error_message"], clock)]
             /\ pc' = [pc EXCEPT ![p] = "fail_write"]
             /\ clock' = clock + 1
             /\ ghost' = [ghost EXCEPT !.foreign = @ \cup Foreign(p, "fail", name)]
             /\ UNCHANGED ret
        ELSE /\ Finish(p, [status |-> "error", job |-> Empty])
             /\ UNCHANGED <<clock, ghost>>
  /\ UNCHANGED <<store, call>>
  /\ UNCHANGED <<counters, flock, worker, local_queue, workers>>

\* json.dump(job_data, open(dest_file, "w")): failed/ or pending/ {job_id}.json
fail_job_write(p) ==
  /\ pc[p] = "fail_write"
  /\ IF loc[p].data["status"] = "failed"
     THEN /\ failed' = Put(failed, call[p].job_id, loc[p].data)
          /\ UNCHANGED pending
     ELSE /\ pending' = Put(pending, call[p].job_id, loc[p].data)
          /\ UNCHANGED failed
  /\ pc' = [pc EXCEPT ![p] = "fail_unlink"]
  /\ UNCHANGED <<processing, completed, clock, call, loc, ret, ghost>>
  /\ UNCHANGED <<counters, flock, worker, local_queue, workers>>

fail_job_unlink(p) ==
  /\ pc[p] = "fail_unlink"
  /\ LET name == FileName(call[p].worker_id, call[p].job_id)
     IN IF name \in DOMAIN processing
        THEN /\ processing' = Del(processing, name)
             /\ Finish(p, [status |-> "ok", job |-> loc[p].data])
             /\ ghost' = [ghost EXCEPT !.nfail[call[p].job_id] = @ + 1]
        ELSE /\ Finish(p, [status |-> "error", job |-> Empty])
             /\ UNCHANGED <<processing, ghost>>
  /\ UNCHANGED <<pending, completed, failed, clock, call>>
  /\ UNCHANGED <<counters, flock, worker, local_queue, workers>>

\* the process running a handler dies between two of its filesystem calls
crash(p) ==
  /\ ~Idle(p)
  /\ Finish(p, [status |-> "crashed", job |-> Empty])
  /\ UNCHANGED <<store, clock, call, ghost>>
  /\ UNCHANGED <<counters, flock, worker, local_queue, workers>>

----------------------------------------------------------------------------
(* update_job_status: POST /queue/{type}/jobs/{job_id}/status *)
Statuses == {"pending", "completed", "failed"}
NewStatuses == Statuses \cup {"processing"}

\* paths[status]
Dir(status) ==
  CASE status = "pending" -> pending
    [] status = "processing" -> processing
    [] status = "completed" -> completed
    [] status = "failed" -> failed

\* the prefixes that glob("*_{job_id}.json") can match in processing/
GlobPrefixes == WorkerIds \cup {w \o "_x" : w \in WorkerIds}

\* the folder loop: a direct match {job_id}.json ends it; a glob match in
\* processing/ is kept only if completed/ and failed/ have no direct match
FindSource(job_id) ==
  IF job_id \in DOMAIN pending THEN {<<"pending", job_id>>}
  ELSE IF job_id \in DOMAIN processing THEN {<<"processing", job_id>>}
  ELSE IF job_id \in DOMAIN completed THEN {<<"completed", job_id>>}
  ELSE IF job_id \in DOMAIN failed THEN {<<"failed", job_id>>}
  ELSE {<<"processing", n>> : n \in {m \in DOMAIN processing :
                                      \E pre \in GlobPrefixes : m = FileName(pre, job_id)}}

update_job_status_find(p, job_id, new_status, max) ==
  /\ Count(p, max)
  /\ LET c == [op |-> "status", worker_id |-> "", job_id |-> job_id,
               arg |-> Put(Empty, "new_status", new_status)]
     IN IF new_status \notin Statuses
        THEN /\ Idle(p)
             /\ call' = [call EXCEPT ![p] = c]
             /\ Finish(p, [status |-> "invalid", job |-> Empty])
        ELSE IF FindSource(job_id) = {}
        THEN /\ Idle(p)
             /\ call' = [call EXCEPT ![p] = c]
             /\ Finish(p, [status |-> "notfound", job |-> Empty])
        ELSE \E src \in FindSource(job_id) :
                Begin(p, c, "status_read", [NoLoc EXCEPT !.source = src])
  /\ UNCHANGED <<store, clock>>
  /\ UNCHANGED <<counters, flock, worker, local_queue, workers>>

StatusJobKeepRetry(job_data, new_status, now) ==
  LET j1 == Put(Put(job_data, "status", new_status), "status_updated_at", now)
  IN IF new_status = "pending"
     THEN Del(Del(Del(j1, "error_message"), "worker_id"), "processing_started_at")
     ELSE j1
StatusJob(job_data, new_status, now) ==
  LET j1 == Put(Put(job_data, "status", new_status), "status_updated_at", now)
  IN IF new_status = "pending"
     THEN Del(Del(Del(Put(j1, "retry_count", 0), "error_message"), "worker_id"),
              "processing_started_at")
     ELSE j1

update_job_status_read(p) ==
  /\ pc[p] = "status_read"
  /\ LET dir == Dir(loc[p].source[1])
         name == loc[p].source[2]
     IN IF name \in DOMAIN dir /\ Parseable(dir[name])
        THEN /\ loc' = [loc EXCEPT ![p].data = StatusJob(dir[name], call[p].arg["new_status"], clock)]
             /\ pc' = [pc EXCEPT ![p] = "status_write"]
             /\ clock' = clock + 1
             /\ UNCHANGED ret
        ELSE /\ Finish(p, [status |-> "error", job |-> Empty])
             /\ UNCHANGED clock
  /\ UNCHANGED <<store, call, ghost>>
  /\ UNCHANGED <<counters, flock, worker, local_queue, workers>>

\* json.dump(job_data, open(paths[new_status] / {job_id}.json, "w"))
update_job_status_write(p) ==
  /\ pc[p] = "status_write"
  /\ LET to == call[p].arg["new_status"]
         put(dir) == Put(dir, call[p].job_id, loc[p].data)
     IN /\ pending' = IF to = "pending" THEN put(pending) ELSE pending
        /\ completed' = IF to = "completed" THEN put(completed) ELSE completed
        /\ failed' = IF to = "failed" THEN put(failed) ELSE failed
  /\ pc' = [pc EXCEPT ![p] = "status_unlink"]
  /\ UNCHANGED <<processing, clock, call, loc, ret, ghost>>
  /\ UNCHANGED <<counters, flock, worker, local_queue, workers>>

\* source_file.unlink(), also when the source is the file just written
update_job_status_unlink(p) ==
  /\ pc[p] = "status_unlink"
  /\ LET from == loc[p].source[1]
         name == loc[p].source[2]
         del(dir) == Del(dir, name)
     IN IF name \in DOMAIN Dir(from)
        THEN /\ pending' = IF from = "pending" THEN del(pending) ELSE pending
             /\ processing' = IF from = "processing" THEN del(processing) ELSE processing
             /\ completed' = IF from = "completed" THEN del(completed) ELSE completed
             /\ failed' = IF from = "failed" THEN del(failed) ELSE failed
             /\ Finish(p, [status |-> "ok", job |-> loc[p].data])
        ELSE /\ Finish(p, [status |-> "error", job |-> Empty])
             /\ UNCHANGED store
  /\ UNCHANGED <<clock, call, ghost>>
  /\ UNCHANGED <<counters, flock, worker, local_queue, workers>>

(* reset_queue: POST /queue/reset *)
\* shutil.rmtree and mkdir of pending/, processing/, completed/ and failed/
reset_queue(p, max) ==
  /\ Count(p, max)
  /\ Idle(p)
  /\ call' = [call EXCEPT ![p] = [NoCall EXCEPT !.op = "reset"]]
  /\ pending' = Empty /\ processing' = Empty /\ completed' = Empty /\ failed' = Empty
  /\ Finish(p, [status |-> "ok", job |-> Empty])
  /\ UNCHANGED clock
  /\ UNCHANGED <<counters, flock, worker, local_queue, workers>>

----------------------------------------------------------------------------
(* increment_counter, get_counter, reset_counters on counters.json *)
CounterKey(counter_type) == counter_type \o "_counter"
ZeroCounters == Put(Put(Empty, "audio_counter", 0), "video_counter", 0)

\* open(counter_file, "r+"); 400 for an unknown counter type
increment_counter_open(p, counter_type, max) ==
  /\ Count(p, max)
  /\ LET c == [NoCall EXCEPT !.op = "increment", !.arg = Put(Empty, "counter_type", counter_type)]
     IN IF counter_type \notin CounterTypes
        THEN /\ Idle(p)
             /\ call' = [call EXCEPT ![p] = c]
             /\ Finish(p, [status |-> "invalid", job |-> Empty])
        ELSE IF counters = NoFile
        THEN /\ Idle(p)
             /\ call' = [call EXCEPT ![p] = c]
             /\ Finish(p, [status |-> "error", job |-> Empty])
        ELSE Begin(p, c, "inc_lock", NoLoc)
  /\ UNCHANGED <<store, clock, counters, flock>>
  /\ UNCHANGED <<worker, local_queue, workers>>

\* fcntl.flock(f.fileno(), fcntl.LOCK_EX) blocks while another caller holds it
flockAcquire(p) == flock = 0

increment_counter_lock(p) ==
  /\ pc[p] = "inc_lock"
  /\ flockAcquire(p)
  /\ flock' = p
  /\ pc' = [pc EXCEPT ![p] = "inc_read"]
  /\ UNCHANGED <<store, clock, call, loc, ret, counters, ghost>>
  /\ UNCHANGED <<worker, local_queue, workers>>

\* json.load(f), zeros when it does not parse; the counter plus one
increment_counter_read(p) ==
  /\ pc[p] = "inc_read"
  /\ LET key == CounterKey(call[p].arg["counter_type"])
         old == IF Parseable(counters) THEN counters ELSE ZeroCounters
         new == Put(Put(old, key, Get(old, key, 0) + 1), "updated_at", clock)
     IN loc' = [loc EXCEPT ![p].data = new]
  /\ pc' = [pc EXCEPT ![p] = "inc_write"]
  /\ clock' = clock + 1
  /\ UNCHANGED <<store, call, ret, counters, flock, ghost>>
  /\ UNCHANGED <<worker, local_queue, workers>>

\* f.seek(0); json.dump; f.truncate(); the lock goes when the file is closed
increment_counter_write(p) ==
  /\ pc[p] = "inc_write"
  /\ counters' = loc[p].data
  /\ flock' = 0
  /\ Finish(p, [status |-> "ok",
                job |-> Put(Empty, "value", loc[p].data[CounterKey(call[p].arg["counter_type"])])])
  /\ ghost' = [ghost EXCEPT !.expect[call[p].arg["counter_type"]] = @ + 1]
  /\ UNCHANGED <<store, clock, call>>
  /\ UNCHANGED <<worker, local_queue, workers>>

\* json.load of the file read without the lock; 0 when that fails
get_counter(p, counter_type, max) ==
  /\ Count(p, max)
  /\ Idle(p)
  /\ counter_type \in CounterTypes
  /\ call' = [call EXCEPT ![p] = [NoCall EXCEPT !.op = "get",
                                     !.arg = Put(Empty, "counter_type", counter_type)]]
  /\ Finish(p, [status |-> "ok",
                job |-> Put(Empty, "value",
                            IF Parseable(counters) /\ counters # NoFile
                            THEN Get(counters, CounterKey(counter_type), 0) ELSE 0)])
  /\ UNCHANGED <<store, clock, counters, flock>>
  /\ UNCHANGED <<worker, local_queue, workers>>

\* open(counter_file, "w") empties the file, without asking for the lock
reset_counters_open(p, max) ==
  /\ Count(p, max)
  /\ Begin(p, [NoCall EXCEPT !.op = "reset_counters"], "reset_write",
           [NoLoc EXCEPT !.data = Put(ZeroCounters, "updated_at", clock)])
  /\ counters' = CorruptFile
  /\ clock' = clock + 1
  /\ UNCHANGED <<store, flock>>
  /\ UNCHANGED <<worker, local_queue, workers>>

\* json.dump(counters, f)
reset_counters_write(p) ==
  /\ pc[p] = "reset_write"
  /\ counters' = loc[p].data
  /\ Finish(p, [status |-> "ok", job |-> loc[p].data])
  /\ ghost' = [ghost EXCEPT !.expect = [t \in CounterTypes |-> 0]]
  /\ UNCHANGED <<store, clock, call, flock>>
  /\ UNCHANGED <<worker, local_queue, workers>>

----------------------------------------------------------------------------
(* Callers running handlers concurrently, interleaved at filesystem calls *)
RaceUuids == {"a"}
RaceSupplied == {"b"}
RaceIds == RaceUuids \cup RaceSupplied
RacePayloads == {p \in Payloads : p.priority = -1 /\ (p.retry_count = -1 <=> p.created_at = -1)}
RaceLinks == {"https://x"}
RaceMessages == {"boom"}

Next ==
  \/ \E p \in Procs, supplied \in RaceSupplied \cup {""}, payload \in RacePayloads :
        create_job(p, supplied, payload, RaceUuids, MaxOps)
  \/ \E p \in Procs, w \in WorkerIds : claim_job_list(p, w, MaxOps)
  \/ \E p \in Procs : claim_job_read(p)
  \/ \E p \in Procs : claim_job_rename(p)
  \/ \E p \in Procs : claim_job_write(p)
  \/ \E p \in Procs, w \in WorkerIds, j \in RaceIds, l \in RaceLinks :
        complete_job_exists(p, w, j, l, MaxOps)
  \/ \E p \in Procs : complete_job_read(p)
  \/ \E p \in Procs : complete_job_write(p)
  \/ \E p \in Procs : complete_job_unlink(p)
  \/ \E p \in Procs, w \in WorkerIds, j \in RaceIds, m \in RaceMessages :
        fail_job_exists(p, w, j, m, MaxOps)
  \/ \E p \in Procs : fail_job_read(p)
  \/ \E p \in Procs : fail_job_write(p)
  \/ \E p \in Procs : fail_job_unlink(p)
  \/ \E p \in Procs : crash(p)

Spec == Init /\ [][Next]_vars

----------------------------------------------------------------------------
(* Pending sets left by earlier create_job calls: jobs "a", "b", "x_a"
   enqueued in this order, each with or without a priority *)
PlainPayloads == {p \in Payloads : p.created_at = -1 /\ p.retry_count = -1}

PendingSets ==
  { Empty } \cup
  { Put(Empty, "a", NewJob(pa, "a", 1)) : pa \in PlainPayloads } \cup
  { Put(Put(Empty, "a", NewJob(pa, "a", 1)), "b", NewJob(pb, "b", 2)) :
      pa \in PlainPayloads, pb \in PlainPayloads } \cup
  { Put(Put(Put(Empty, "a", NewJob(pa, "a", 1)), "b", NewJob(pb, "b", 2)),
        "x_a", NewJob(px, "x_a", 3)) :
      pa \in PlainPayloads, pb \in PlainPayloads, px \in PlainPayloads }

InitFrom(sets, bads) ==
  /\ \E ps \in sets, bad \in bads :
       /\ pending = IF bad THEN Put(ps, "bad", CorruptFile) ELSE ps
       /\ ghost = [InitGhost EXCEPT !.enq = [j \in JobIds |-> IF j \in DOMAIN ps THEN 1 ELSE 0]]
  /\ processing = Empty /\ completed = Empty /\ failed = Empty
  /\ clock = 4
  /\ counters = NoFile /\ flock = 0
  /\ worker = NoWorker
  /\ local_queue = NoQueue
  /\ workers = Empty
  /\ pc = [p \in AllProcs |-> "idle"]
  /\ call = [p \in AllProcs |-> NoCall]
  /\ loc = [p \in AllProcs |-> NoLoc]
  /\ ret = [p \in AllProcs |-> NoRet]

----------------------------------------------------------------------------
(* One caller: every handler runs from its first to its last filesystem call
   with nothing in between (the handlers of the file server are coroutines
   without an await, so one server process runs them one at a time) *)
SeqNext ==
  \/ \E name \in CorruptNames : Idle(1) /\ drop_corrupt(name, MaxSeqOps)
  \/ \E w \in WorkerIds : claim_job_list(1, w, MaxSeqOps)
  \/ claim_job_read(1)
  \/ claim_job_rename(1)
  \/ claim_job_write(1)
  \/ \E w \in WorkerIds, j \in JobIds, l \in Links : complete_job_exists(1, w, j, l, MaxSeqOps)
  \/ complete_job_read(1)
  \/ complete_job_write(1)
  \/ complete_job_unlink(1)
  \/ \E w \in WorkerIds, j \in JobIds, m \in RaceMessages : fail_job_exists(1, w, j, m, MaxSeqOps)
  \/ fail_job_read(1)
  \/ fail_job_write(1)
  \/ fail_job_unlink(1)

SpecSeq == InitFrom(PendingSets, BOOLEAN) /\ [][SeqNext]_vars

----------------------------------------------------------------------------
(* The claim race: callers that each run claim_job once, interleaved at the
   listing, the reads, the rename and the rewrite *)
RaceSets ==
  {ps \in PendingSets : /\ ps # Empty /\ "x_a" \notin DOMAIN ps
                        /\ "priority" \notin DOMAIN ps["a"]}

ClaimNext ==
  \/ \E p \in Claimers, w \in WorkerIds : pc[p] = "idle" /\ claim_job_list(p, w, NumClaimers)
  \/ \E p \in Claimers : claim_job_read(p)
  \/ \E p \in Claimers : claim_job_rename(p)
  \/ \E p \in Claimers : claim_job_write(p)

SpecClaim == InitFrom(RaceSets, {FALSE}) /\ [][ClaimNext]_vars

----------------------------------------------------------------------------
(* The life of one job: one caller at a time claims, fails and completes the
   single job "a" enqueued without a retry_count *)
OneJob == { Put(Empty, "a", NewJob(pa, "a", 1)) : pa \in PlainPayloads }

RetryNext ==
  \/ \E w \in WorkerIds : claim_job_list(1, w, MaxRetryOps)
  \/ claim_job_read(1)
  \/ claim_job_rename(1)
  \/ claim_job_write(1)
  \/ \E w \in WorkerIds, l \in RaceLinks : complete_job_exists(1, w, "a", l, MaxRetryOps)
  \/ complete_job_read(1)
  \/ complete_job_write(1)
  \/ complete_job_unlink(1)
  \/ \E w \in WorkerIds, m \in Messages : fail_job_exists(1, w, "a", m, MaxRetryOps)
  \/ fail_job_read(1)
  \/ fail_job_write(1)
  \/ fail_job_unlink(1)

SpecRetry == InitFrom(OneJob, {FALSE}) /\ [][RetryNext]_vars

----------------------------------------------------------------------------
(* The operator's endpoints next to the workers': one caller at a time on the
   jobs "a" and "b", "a" enqueued with or without a retry_count of its own *)
MaxAdminOps == 4
AdminIds == {"a", "b"}
AdminSets ==
  { Put(Empty, "a", NewJob(pa, "a", 1)) : pa \in RacePayloads } \cup
  { Put(Put(Empty, "a", NewJob(pa, "a", 1)), "b", NewJob(pb, "b", 2)) :
      pa \in RacePayloads, pb \in {q \in RacePayloads : q.retry_count = -1} }

AdminNext ==
  \/ \E w \in WorkerIds : claim_job_list(1, w, MaxAdminOps)
  \/ claim_job_read(1)
  \/ claim_job_rename(1)
  \/ claim_job_write(1)
  \/ \E w \in WorkerIds, j \in AdminIds, l \in RaceLinks :
        complete_job_exists(1, w, j, l, MaxAdminOps)
  \/ complete_job_read(1)
  \/ complete_job_write(1)
  \/ complete_job_unlink(1)
  \/ \E w \in WorkerIds, j \in AdminIds, m \in RaceMessages :
        fail_job_exists(1, w, j, m, MaxAdminOps)
  \/ fail_job_read(1)
  \/ fail_job_write(1)
  \/ fail_job_unlink(1)
  \/ \E j \in AdminIds, st \in NewStatuses : update_job_status_find(1, j, st, MaxAdminOps)
  \/ update_job_status_read(1)
  \/ update_job_status_write(1)
  \/ update_job_status_unlink(1)
  \/ reset_queue(1, MaxAdminOps)

SpecAdmin == InitFrom(AdminSets, {FALSE}) /\ [][AdminNext]_vars

----------------------------------------------------------------------------
(* The HTTP facade: what a request is answered before its handler touches a
   file *)
API_KEY == "secret"
\* the x-api-key header: missing, different from the configured key, or equal
Keys == {"none", "wrong", API_KEY}

Open == {"root", "health"}
\* handlers whose parameters FastAPI validates (path int, body, upload,
\* required query) before the body of the handler runs
Validated ==
  {"upload_file", "get_script", "upload_audio", "upload_video", "create_job", "claim_job",
   "complete_job", "fail_job", "update_job_status", "worker_heartbeat", "increment_worker_stat"}
Endpoints ==
  Open \cup Validated \cup
  {"download_file", "delete_file", "list_directory", "create_directory", "get_reference_audio",
   "list_images", "get_image", "list_jobs", "get_queue_stats", "increment_counter",
   "get_counter", "reset_queue", "reset_counters", "list_workers"}

verify_api_key_any(x_api_key) == TRUE
verify_api_key(x_api_key) == x_api_key = API_KEY

\* the first statement of every handler but root and health is verify_api_key
Answer(endpoint, x_api_key, wellformed) ==
  IF endpoint \in Validated /\ ~wellformed THEN "422"
  ELSE IF endpoint \notin Open /\ ~verify_api_key(x_api_key) THEN "401"
  ELSE "served"

http_request(p, endpoint, x_api_key, wellformed) ==
  /\ Idle(p)
  /\ call' = [call EXCEPT ![p] = [NoCall EXCEPT !.op = "http",
                 !.arg = [endpoint |-> endpoint, x_api_key |-> x_api_key, wellformed |-> wellformed]]]
  /\ Finish(p, [status |-> Answer(endpoint, x_api_key, wellformed), job |-> Empty])
  /\ UNCHANGED <<store, clock, ghost>>
  /\ UNCHANGED <<counters, flock, worker, local_queue, workers>>

HttpNext ==
  \E p \in Procs, e \in Endpoints, k \in Keys, wf \in BOOLEAN : http_request(p, e, k, wf)

SpecHttp == Init /\ [][HttpNext]_vars

----------------------------------------------------------------------------
(* Paths built from request input. A path is the sequence of its characters;
   the base directory is "/a" *)
MaxPathLen == 5
Alphabet == {"/", ".", "a", "b"}
BASE_PATH == <<"/", "a">>
RequestPaths == UNION {[1..k -> Alphabet] : k \in 0..MaxPathLen}
\* job_id values of a create_job payload; pending/ is two levels below the base
JobIdPaths == {<<"b">>, <<".", ".", "/", ".", ".", "/", ".", ".", "/", "b">>}
PendingDir == BASE_PATH \o <<"/", "q", "/", "p">>

RECURSIVE lstrip(_)
\* path.lstrip("/")
lstrip(path) == IF path # <<>> /\ Head(path) = "/" THEN lstrip(Tail(path)) ELSE path

RECURSIVE SplitAcc(_, _, _)
SplitAcc(s, cur, acc) ==
  IF s = <<>> THEN Append(acc, cur)
  ELSE IF Head(s) = "/" THEN SplitAcc(Tail(s), <<>>, Append(acc, cur))
  ELSE SplitAcc(Tail(s), Append(cur, Head(s)), acc)
\* path.split("/")
Split(s) == SplitAcc(s, <<>>, <<>>)

RECURSIVE Resolve(_, _)
\* empty and "." components are dropped, ".." removes the component before it
Resolve(comps, stack) ==
  IF comps = <<>> THEN stack
  ELSE LET c == Head(comps) IN
       IF c = <<>> \/ c = <<".">> THEN Resolve(Tail(comps), stack)
       ELSE IF c = <<".", ".">>
       THEN Resolve(Tail(comps), IF stack = <<>> THEN stack ELSE SubSeq(stack, 1, Len(stack) - 1))
       ELSE Resolve(Tail(comps), Append(stack, c))

RECURSIVE Join(_)
Join(stack) == IF stack = <<>> THEN <<>> ELSE <<"/">> \o Head(stack) \o Join(Tail(stack))
\* os.path.normpath of an absolute path
normpath(s) == LET stack == Resolve(Split(s), <<>>) IN IF stack = <<>> THEN <<"/">> ELSE Join(stack)
\* os.path.join(BASE_PATH, clean_path) for a relative clean_path
join(base, clean_path) == base \o <<"/">> \o clean_path

\* full_path.startswith(BASE_PATH)
startswith(full_path, prefix) ==
  Len(full_path) >= Len(prefix) /\ SubSeq(full_path, 1, Len(prefix)) = prefix

\* safe_path: the full path, or <<>> for HTTPException(403)
safe_path(path) ==
  LET full_path == normpath(join(BASE_PATH, lstrip(path)))
  IN IF ~startswith(full_path, BASE_PATH) THEN <<>> ELSE full_path

\* GET/POST/DELETE /files/{path:path}: the file the handler opens
files_request(p, path) ==
  /\ Idle(p)
  /\ call' = [call EXCEPT ![p] = [NoCall EXCEPT !.op = "files", !.arg = [path |-> path]]]
  /\ Finish(p, IF safe_path(path) = <<>> THEN [status |-> "403", job |-> Empty]
               ELSE [status |-> "served", job |-> [full_path |-> safe_path(path)]])
  /\ UNCHANGED <<store, clock, ghost>>
  /\ UNCHANGED <<counters, flock, worker, local_queue, workers>>

\* create_job: job_file = paths["pending"] / f"{job_id}.json", opened as it is
create_job_path(p, job_id) ==
  /\ Idle(p)
  /\ call' = [call EXCEPT ![p] = [NoCall EXCEPT !.op = "enqueue_path", !.arg = [path |-> job_id]]]
  /\ Finish(p, [status |-> "served", job |-> [full_path |-> normpath(join(PendingDir, job_id))]])
  /\ UNCHANGED <<store, clock, ghost>>
  /\ UNCHANGED <<counters, flock, worker, local_queue, workers>>

PathNext ==
  \/ \E path \in RequestPaths : files_request(1, path)
  \/ \E job_id \in JobIdPaths : create_job_path(1, job_id)

SpecPath == Init /\ [][PathNext]_vars

----------------------------------------------------------------------------
(* Callers of the counter endpoints, interleaved at the open, the lock, the
   read and the write *)
MaxCounterOps == 4
CounterNext ==
  \/ \E p \in Procs, t \in CounterTypes \cup {"bogus"} : increment_counter_open(p, t, MaxCounterOps)
  \/ \E p \in Procs : increment_counter_lock(p)
  \/ \E p \in Procs : increment_counter_read(p)
  \/ \E p \in Procs : increment_counter_write(p)
  \/ \E p \in Procs, t \in CounterTypes : get_counter(p, t, MaxCounterOps)
  \/ \E p \in Procs : reset_counters_open(p, MaxCounterOps)
  \/ \E p \in Procs : reset_counters_write(p)

SpecCounter == Init /\ [][CounterNext]_vars

----------------------------------------------------------------------------
(* Worker records: POST /workers/{worker_type}/heartbeat and
   POST /workers/{worker_type}/{worker_id}/increment of the file server,
   LocalVideoQueue.update_worker_status and increment_worker_stat. workers
   maps each directory that exists under workers/ to its files. *)
None == "None"                   \* Python None in a field of a request
WorkerTypes == {"audio", "video"}
Stats == {"jobs_completed", "jobs_failed"}

\* worker_type in ["audio", "video"]
valid_worker_type(worker_type) == worker_type \in WorkerTypes

\* the record of a worker_id that has no file yet
NewWorkerData(worker_id, now) ==
  Put(Put(Put(Put(Empty, "worker_id", worker_id), "jobs_completed", 0), "jobs_failed", 0),
      "created_at", now)

\* worker_data after the "# Update" block of worker_heartbeat
HeartbeatData(worker_data, request, now) ==
  LET d1 == Put(Put(worker_data, "status", request.status), "last_heartbeat", now)
      d2 == IF request.hostname # None THEN Put(d1, "hostname", request.hostname) ELSE d1
      d3 == IF request.gpu_model # None THEN Put(d2, "gpu_model", request.gpu_model) ELSE d2
  IN IF request.current_job # None THEN Put(d3, "current_job", request.current_job) ELSE d3

\* workers/{worker_type}/ after workers_dir.mkdir(parents=True, exist_ok=True)
\* and the write of {worker_id}.json
Heartbeat(dirs, worker_type, request, now) ==
  LET dir == Get(dirs, worker_type, Empty)
      worker_data == IF request.worker_id \in DOMAIN dir THEN dir[request.worker_id]
                     ELSE NewWorkerData(request.worker_id, now)
  IN Put(dirs, worker_type, Put(dir, request.worker_id, HeartbeatData(worker_data, request, now)))

\* worker_data[stat] = worker_data.get(stat, 0) + 1, written back
IncrementStat(dirs, worker_type, worker_id, stat) ==
  LET worker_data == dirs[worker_type][worker_id]
  IN Put(dirs, worker_type,
         Put(dirs[worker_type], worker_id, Put(worker_data, stat, Get(worker_data, stat, 0) + 1)))

\* worker_file.exists()
HasRecord(dirs, worker_type, worker_id) ==
  worker_type \in DOMAIN dirs /\ worker_id \in DOMAIN dirs[worker_type]

worker_heartbeat(p, worker_type, request, max) ==
  /\ Count(p, max)
  /\ Idle(p)
  /\ call' = [call EXCEPT ![p] = [op |-> "heartbeat", worker_id |-> request.worker_id,
                                   job_id |-> "", arg |-> [worker_type |-> worker_type,
                                                           request |-> request]]]
  /\ IF ~valid_worker_type(worker_type)
     THEN /\ Finish(p, [status |-> "invalid", job |-> Empty])
          /\ UNCHANGED <<workers, clock>>
     ELSE /\ workers' = Heartbeat(workers, worker_type, request, clock)
          /\ clock' = clock + 1
          /\ Finish(p, [status |-> "ok", job |-> Put(Empty, "worker_id", request.worker_id)])
  /\ UNCHANGED <<store, counters, flock, worker, local_queue>>

\* the file that workers_dir / f"{worker_id}.json" names, workers_dir being
\* BASE_PATH/workers/{worker_type}: a file of a directory under workers/ or,
\* for the worker_type "..", a file of BASE_PATH itself, of which the only one
\* modelled is counters.json
InBase(worker_type, worker_id) ==
  worker_type = ".." /\ DOMAIN workers # {} /\ worker_id = "counters"

\* worker_file.exists()
WorkerFileExists(worker_type, worker_id) ==
  \/ HasRecord(workers, worker_type, worker_id)
  \/ InBase(worker_type, worker_id) /\ counters # NoFile

increment_worker_stat(p, worker_type, worker_id, stat, max) ==
  /\ Count(p, max)
  /\ Idle(p)
  /\ call' = [call EXCEPT ![p] = [op |-> "increment_stat", worker_id |-> worker_id,
                                   job_id |-> "", arg |-> [worker_type |-> worker_type,
                                                           stat |-> stat]]]
  /\ IF stat \notin Stats
     THEN /\ Finish(p, [status |-> "invalid", job |-> Empty])
          /\ UNCHANGED <<workers, counters>>
     ELSE IF ~WorkerFileExists(worker_type, worker_id)
     THEN /\ Finish(p, [status |-> "notfound", job |-> Empty])
          /\ UNCHANGED <<workers, counters>>
     ELSE IF InBase(worker_type, worker_id)
     THEN IF Parseable(counters)
          THEN /\ counters' = Put(counters, stat, Get(counters, stat, 0) + 1)
               /\ Finish(p, [status |-> "ok", job |-> Put(Empty, stat, counters'[stat])])
               /\ UNCHANGED workers
          ELSE /\ Finish(p, [status |-> "error", job |-> Empty])
               /\ UNCHANGED <<workers, counters>>
     ELSE /\ workers' = IncrementStat(workers, worker_type, worker_id, stat)
          /\ Finish(p, [status |-> "ok",
                        job |-> Put(Empty, stat, workers'[worker_type][worker_id][stat])])
          /\ UNCHANGED counters
  /\ UNCHANGED <<store, clock, flock, worker, local_queue>>

(* get_queue_stats: GET /queue/{type}/stats, LocalVideoQueue.get_stats *)
\* len(list(path.glob("*.json"))) per directory, and their sum
QueueStats ==
  LET stats == [status \in {"pending", "processing", "completed", "failed"} |->
                  Cardinality(DOMAIN Dir(status))]
  IN Put(stats, "total",
         stats["pending"] + stats["processing"] + stats["completed"] + stats["failed"])

get_queue_stats(p, max) ==
  /\ Count(p, max)
  /\ Idle(p)
  /\ call' = [call EXCEPT ![p] = [NoCall EXCEPT !.op = "stats"]]
  /\ Finish(p, [status |-> "ok", job |-> QueueStats])
  /\ UNCHANGED <<store, clock, counters, flock, worker, local_queue, workers>>

----------------------------------------------------------------------------
(* A worker process: the main loop of audio_worker_new.py, of the video worker
   (local_video_worker.py), of unified_worker.py and of shorts_worker.py,
   which claims a job, runs process_job and goes back to polling. The queue
   runs the worker's calls as caller 1. *)
MaxWorkerOps == 4
Variants == {"audio", "video", "unified", "shorts"}
WORKER_ID == "w"
\* the fields process_job reads from the job
AudioFields == {"channel_code", "video_number", "organized_path", "date"}
VideoFields == {"channel_code", "video_number", "date", "organized_path"}
UnifiedFields == {"existing_audio_link"}
ShortsFields == {"existing_audio_link"}
\* the local files the pipeline of a variant creates, in the order it does
TempFiles(variant) ==
  CASE variant = "audio" -> <<"ref_audio_path", "output_audio">>
    [] variant = "video" -> <<"local_audio", "final_video">>
    [] variant = "unified" -> <<"local_audio_out", "local_video_out">>
    [] variant = "shorts" -> <<"local_audio", "local_video">>
\* the finally clause of process_job removes the temp files
CleansInFinally(variant) == variant \in {"unified", "shorts"}
\* the except clause of process_job increments jobs_failed
CountsFailure(variant) == variant \in {"audio", "video"}
\* the while loop stands inside the try of the main loop
LoopInsideTry(variant) == variant = "video"
\* payloads of the producers: complete, or lacking one of these fields
WorkerPayloads ==
  LET full == [k \in AudioFields \cup UnifiedFields |-> "v"]
  IN {full, Del(full, "organized_path"), Del(full, "existing_audio_link")}
WorkerJob(payload, job_id, now) ==
  Put(Put(Put(payload, "job_id", job_id), "created_at", now), "retry_count", 0)
WorkerSets ==
  { Put(Empty, "a", WorkerJob(pa, "a", 1)) : pa \in WorkerPayloads } \cup
  { Put(Put(Empty, "a", WorkerJob(pa, "a", 1)), "b", WorkerJob(pb, "b", 2)) :
      pa \in WorkerPayloads, pb \in WorkerPayloads }

\* the directory under workers/ that holds the worker's record
WorkerType(variant) == IF variant = "video" THEN "video" ELSE "audio"
HOSTNAME == "host"
GPU == "gpu"
\* the heartbeat a variant sends: the first one registers the worker
WorkerRequest(variant, status, first, current_job) ==
  [ worker_id |-> WORKER_ID, status |-> status,
    hostname |-> IF variant = "audio" /\ ~first THEN None ELSE HOSTNAME,
    gpu_model |-> IF variant = "shorts" \/ first THEN GPU ELSE None,
    current_job |-> current_job ]
\* the main loop of the variant heartbeats online after every iteration
BeatsInLoop(variant) == variant \in {"unified", "shorts"}

InitWorker ==
  /\ \E ps \in WorkerSets :
       /\ pending = ps
       /\ ghost = [InitGhost EXCEPT !.enq = [j \in JobIds |-> IF j \in DOMAIN ps THEN 1 ELSE 0]]
  /\ \E v \in Variants : worker = [NoWorker EXCEPT !.variant = v, !.state = "idle"]
  /\ local_queue = NoQueue
  /\ workers = Heartbeat(Empty, WorkerType(worker.variant),
                         WorkerRequest(worker.variant, "online", TRUE, None), 3)
  /\ processing = Empty /\ completed = Empty /\ failed = Empty
  /\ clock = 4
  /\ counters = NoFile /\ flock = 0
  /\ pc = [p \in AllProcs |-> "idle"]
  /\ call = [p \in AllProcs |-> NoCall]
  /\ loc = [p \in AllProcs |-> NoLoc]
  /\ ret = [p \in AllProcs |-> NoRet]

WorkerOnly == UNCHANGED <<store, pc, call, loc, ret, counters, flock, local_queue, ghost>>
NoHeartbeat == UNCHANGED <<workers, clock>>
\* queue.send_heartbeat(WORKER_ID, status=..., current_job=...) served by
\* worker_heartbeat, self.queue.update_worker_status(...) of the video worker
send_heartbeat(dirs, status, current_job) ==
  /\ workers' = Heartbeat(dirs, WorkerType(worker.variant),
                          WorkerRequest(worker.variant, status, FALSE, current_job), clock)
  /\ clock' = clock + 1
\* queue.increment_worker_stat(WORKER_ID, stat): False when the record is missing
worker_stat(dirs, stat) ==
  IF HasRecord(dirs, WorkerType(worker.variant), WORKER_ID)
  THEN IncrementStat(dirs, WorkerType(worker.variant), WORKER_ID, stat)
  ELSE dirs
\* the request the worker has sent is still to be served / has been answered
Unserved == ghost.nops < worker.await
Answered == ghost.nops = worker.await /\ pc[1] = "done"

\* job = queue.claim_audio_job(WORKER_ID)
worker_poll ==
  /\ worker.state = "idle"
  /\ ghost.nops < MaxWorkerOps
  /\ worker' = [worker EXCEPT !.state = "claiming", !.job = Empty, !.calls = 0,
                              !.await = ghost.nops + 1]
  /\ \/ NoHeartbeat
     \/ worker.variant = "audio" /\ send_heartbeat(workers, "online", None)
  /\ WorkerOnly

\* if job: process_job(job) else: sleep(POLL_INTERVAL)
worker_claimed ==
  /\ worker.state = "claiming" /\ Answered
  /\ worker' = IF ret[1].status = "job"
               THEN [worker EXCEPT !.state = "busy", !.job = ret[1].job]
               ELSE [worker EXCEPT !.state = "idle"]
  /\ IF ret[1].status # "job" /\ BeatsInLoop(worker.variant)
     THEN send_heartbeat(workers, "online", None)
     ELSE NoHeartbeat
  /\ WorkerOnly

\* process_job up to its report. audio, video: job["channel_code"], ... are
\* read before the try, a KeyError reaches the except of the main loop.
\* unified, shorts: a job without existing_audio_link is skipped with
\* return True.
Unreported(variant, job) ==
  \/ variant = "audio" /\ ~(AudioFields \subseteq DOMAIN job)
  \/ variant = "video" /\ ~(VideoFields \subseteq DOMAIN job)
  \/ variant = "unified" /\ ~(UnifiedFields \subseteq DOMAIN job)
  \/ variant = "shorts" /\ ~(ShortsFields \subseteq DOMAIN job)

\* the first k temp files of the variant
Made(variant, k) == {TempFiles(variant)[i] : i \in 1..k}

\* the pipeline runs to its complete call, or raises after it has created
\* some of its temp files; an exception that leaves process_job ends the
\* loop of the video worker, whose except clause stands outside the while
worker_process ==
  /\ worker.state = "busy"
  /\ IF Unreported(worker.variant, worker.job)
     THEN /\ worker' = [worker EXCEPT !.state = IF LoopInsideTry(worker.variant)
                                                THEN "stopped" ELSE "idle"]
          /\ IF BeatsInLoop(worker.variant)
             THEN send_heartbeat(workers, "online", None)
             ELSE NoHeartbeat
     ELSE /\ ghost.nops < MaxWorkerOps
          /\ send_heartbeat(workers, "busy", worker.job["job_id"])
          /\ \/ worker' = [worker EXCEPT !.state = "reporting_success", !.calls = @ + 1,
                                         !.await = ghost.nops + 1, !.error = "",
                                         !.temp = @ \cup Made(worker.variant, 2)]
             \/ \E e \in Messages, k \in 0..2 :
                  worker' = [worker EXCEPT !.state = "reporting_failure", !.calls = @ + 1,
                                           !.await = ghost.nops + 1, !.error = e,
                                           !.temp = @ \cup Made(worker.variant, k)]
  /\ WorkerOnly

\* what process_job does after its complete or fail call, whose answer is not
\* looked at: the stat, the removal of the temp files, the finally clause
worker_reported ==
  /\ worker.state \in {"reporting_success", "reporting_failure"} /\ Answered
  /\ worker' = [worker EXCEPT
       !.state = "idle",
       !.jobs_failed = IF worker.state = "reporting_failure" /\ CountsFailure(worker.variant)
                       THEN @ + 1 ELSE @,
       !.temp = IF worker.state = "reporting_success" \/ CleansInFinally(worker.variant)
                THEN {} ELSE @]
  /\ send_heartbeat(IF worker.state = "reporting_success"
                    THEN worker_stat(workers, "jobs_completed")
                    ELSE IF CountsFailure(worker.variant)
                    THEN worker_stat(workers, "jobs_failed")
                    ELSE workers,
                    "online", None)
  /\ WorkerOnly

WorkerNext ==
  \/ worker_poll
  \/ worker.state = "claiming" /\ Unserved /\ claim_job_list(1, WORKER_ID, MaxWorkerOps)
  \/ claim_job_read(1)
  \/ claim_job_rename(1)
  \/ claim_job_write(1)
  \/ worker_claimed
  \/ worker_process
  \/ /\ worker.state = "reporting_success" /\ Unserved
     /\ \E l \in Links : complete_job_exists(1, WORKER_ID, worker.job["job_id"], l, MaxWorkerOps)
  \/ complete_job_read(1)
  \/ complete_job_write(1)
  \/ complete_job_unlink(1)
  \/ /\ worker.state = "reporting_failure" /\ Unserved
     /\ fail_job_exists(1, WORKER_ID, worker.job["job_id"], worker.error, MaxWorkerOps)
  \/ fail_job_read(1)
  \/ fail_job_write(1)
  \/ fail_job_unlink(1)
  \/ worker_reported

SpecWorker == InitWorker /\ [][WorkerNext]_vars

(* The worker next to the operator: while the worker runs its pipeline on a
   claimed job, the operator (caller 2) may resolve a job by hand through
   POST /queue/{type}/jobs/{job_id}/status *)
OperatorStatuses == {"completed", "failed"}
OperatedNext ==
  \/ WorkerNext
  \/ /\ worker.state = "busy"
     /\ \E s \in OperatorStatuses :
          update_job_status_find(2, worker.job["job_id"], s, MaxWorkerOps)
  \/ update_job_status_read(2)
  \/ update_job_status_write(2)
  \/ update_job_status_unlink(2)

SpecOperated == InitWorker /\ [][OperatedNext]_vars

----------------------------------------------------------------------------
(* The life of one job under concurrent callers: two callers claim, complete
   and fail the single job "a", enqueued with default fields, interleaved at
   their filesystem calls *)
MaxBoundOps == 6
DefaultJob == Put(Empty, "a", NewJob([priority |-> -1, retry_count |-> -1, created_at |-> -1], "a", 1))

BoundNext ==
  \/ \E p \in Procs, w \in WorkerIds : claim_job_list(p, w, MaxBoundOps)
  \/ \E p \in Procs : claim_job_read(p)
  \/ \E p \in Procs : claim_job_rename(p)
  \/ \E p \in Procs : claim_job_write(p)
  \/ \E p \in Procs, w \in WorkerIds, l \in RaceLinks : complete_job_exists(p, w, "a", l, MaxBoundOps)
  \/ \E p \in Procs : complete_job_read(p)
  \/ \E p \in Procs : complete_job_write(p)
  \/ \E p \in Procs : complete_job_unlink(p)
  \/ \E p \in Procs, w \in WorkerIds, m \in RaceMessages : fail_job_exists(p, w, "a", m, MaxBoundOps)
  \/ \E p \in Procs : fail_job_read(p)
  \/ \E p \in Procs : fail_job_write(p)
  \/ \E p \in Procs : fail_job_unlink(p)

SpecBound == InitFrom({DefaultJob}, {FALSE}) /\ [][BoundNext]_vars

----------------------------------------------------------------------------
(* LocalVideoQueue (local_video_worker.py): claim_job, complete_job and
   fail_job written a second time, on directories the worker process reaches
   without the file server. Each call runs from its first to its last
   filesystem call with nothing in between. The queue is given the calls the
   file server has served, one after the other, from the same initial
   directories. *)
MaxEquivOps == 4
\* the job ids create_job took from a payload as a JSON number: the file is
\* named by the text of the number, the document holds the number
NumberIds == {"b"}
JsonNumber(id) == "#" \o id
\* value[:8] raises TypeError unless the value is a string
Sliceable(value) == value \notin {JsonNumber(id) : id \in NumberIds}

\* list(self.pending.glob("*.json")), in any of the orders the directory gives
Listings(S) ==
  {s \in [1..Cardinality(S) -> S] : \A i, j \in 1..Cardinality(S) : i # j => s[i] # s[j]}

RECURSIVE ReadJobs(_, _)
\* jobs_with_files: the listed files that open and parse
ReadJobs(dir, listing) ==
  IF listing = <<>> THEN <<>>
  ELSE LET name == Head(listing)
           rest == ReadJobs(dir, Tail(listing))
       IN IF name \in DOMAIN dir /\ Parseable(dir[name]) THEN <<<<name, dir[name]>>>> \o rest
          ELSE rest

RECURSIVE ClaimLoop(_, _, _, _)
\* for job_file, job_data in jobs_with_files: os.rename, the rewrite, the
\* print of job_id[:8] and the return; FileNotFoundError and any other
\* exception raised on the way lead to the next candidate
ClaimLoop(q, jobs, worker_id, now) ==
  IF jobs = <<>> THEN [q EXCEPT !.ret = [status |-> "null", job |-> Empty]]
  ELSE LET name == Head(jobs)[1]
           job_data == ClaimedJob(Head(jobs)[2], worker_id, now)
           moved == [q EXCEPT !.pending = Del(@, name),
                              !.processing = Put(@, FileName(worker_id, name), job_data)]
       IN IF name \notin DOMAIN q.pending THEN ClaimLoop(q, Tail(jobs), worker_id, now)
          ELSE IF Sliceable(Get(job_data, "job_id", "unknown"))
          THEN [moved EXCEPT !.ret = [status |-> "job", job |-> job_data]]
          ELSE ClaimLoop(moved, Tail(jobs), worker_id, now + 1)

\* LocalVideoQueue.claim_job
LocalClaim(q, listing, worker_id, now) ==
  LET jobs == ReadJobs(q.pending, listing)
  IN IF listing = <<>> \/ jobs = <<>> THEN [q EXCEPT !.ret = [status |-> "null", job |-> Empty]]
     ELSE ClaimLoop(q, SortJobs(jobs), worker_id, now)

\* LocalVideoQueue.complete_job: True, or False when the file is not there or
\* an exception was raised
LocalComplete(q, job_id, worker_id, gofile_link, now) ==
  LET name == FileName(worker_id, job_id)
  IN IF name \notin DOMAIN q.processing \/ ~Parseable(q.processing[name])
     THEN [q EXCEPT !.ret = [status |-> "false", job |-> Empty]]
     ELSE LET job_data == CompletedJob(q.processing[name], gofile_link, now)
          IN [q EXCEPT !.completed = Put(@, job_id, job_data),
                       !.processing = Del(@, name),
                       !.ret = [status |-> IF Sliceable(job_id) THEN "true" ELSE "false",
                                job |-> Empty]]

\* LocalVideoQueue.fail_job
LocalFail(q, job_id, worker_id, error_message, now) ==
  LET name == FileName(worker_id, job_id)
  IN IF name \notin DOMAIN q.processing \/ ~Parseable(q.processing[name])
     THEN [q EXCEPT !.ret = [status |-> "false", job |-> Empty]]
     ELSE LET job_data == FailedJob(q.processing[name], error_message, now)
          IN [q EXCEPT !.failed = IF job_data["status"] = "failed"
                                  THEN Put(@, job_id, job_data) ELSE @,
                       !.pending = IF job_data["status"] = "failed"
                                   THEN @ ELSE Put(@, job_id, job_data),
                       !.processing = Del(@, name),
                       !.ret = [status |-> "true", job |-> Empty]]

\* the file server has answered a call that the queue has not yet been given
Behind(op) == pc[1] = "done" /\ call[1].op = op /\ local_queue.ncalls < ghost.nops
QueueOnly == UNCHANGED <<store, pc, call, loc, ret, counters, flock, worker, workers, ghost>>

local_claim_job ==
  /\ Behind("claim")
  /\ \E listing \in Listings(DOMAIN local_queue.pending) :
       local_queue' = [LocalClaim(local_queue, listing, call[1].worker_id, clock)
                         EXCEPT !.ncalls = @ + 1]
  /\ clock' = clock + 1
  /\ QueueOnly

local_complete_job ==
  /\ Behind("complete")
  /\ local_queue' = [LocalComplete(local_queue, call[1].job_id, call[1].worker_id,
                                   call[1].arg["gofile_link"], clock)
                       EXCEPT !.ncalls = @ + 1]
  /\ clock' = clock + 1
  /\ QueueOnly

local_fail_job ==
  /\ Behind("fail")
  /\ local_queue' = [LocalFail(local_queue, call[1].job_id, call[1].worker_id,
                               call[1].arg["error_message"], clock)
                       EXCEPT !.ncalls = @ + 1]
  /\ clock' = clock + 1
  /\ QueueOnly

\* the jobs a (created first), b (its job_id a number) and x_a, with the
\* fields create_job gives them
EquivJob(job_id, now) ==
  LET job == NewJob([priority |-> -1, retry_count |-> -1, created_at |-> -1], job_id, now)
  IN IF job_id \in NumberIds THEN Put(job, "job_id", JsonNumber(job_id)) ELSE job
EquivSets ==
  { Put(Empty, "a", EquivJob("a", 1)),
    Put(Put(Empty, "a", EquivJob("a", 1)), "b", EquivJob("b", 2)),
    Put(Put(Empty, "b", EquivJob("b", 2)), "x_a", EquivJob("x_a", 3)) }

InitEquiv ==
  /\ \E ps \in EquivSets :
       /\ pending = ps
       /\ local_queue = [NoQueue EXCEPT !.pending = ps]
       /\ ghost = [InitGhost EXCEPT !.enq = [j \in JobIds |-> IF j \in DOMAIN ps THEN 1 ELSE 0]]
  /\ processing = Empty /\ completed = Empty /\ failed = Empty
  /\ clock = 4
  /\ counters = NoFile /\ flock = 0
  /\ worker = NoWorker
  /\ workers = Empty
  /\ pc = [p \in AllProcs |-> "idle"]
  /\ call = [p \in AllProcs |-> NoCall]
  /\ loc = [p \in AllProcs |-> NoLoc]
  /\ ret = [p \in AllProcs |-> NoRet]

InSync == local_queue.ncalls = ghost.nops

EquivNext ==
  \/ \E w \in WorkerIds : InSync /\ claim_job_list(1, w, MaxEquivOps)
  \/ claim_job_read(1)
  \/ claim_job_rename(1)
  \/ claim_job_write(1)
  \/ \E w \in WorkerIds, j \in JobIds, l \in RaceLinks :
        InSync /\ complete_job_exists(1, w, j, l, MaxEquivOps)
  \/ complete_job_read(1)
  \/ complete_job_write(1)
  \/ complete_job_unlink(1)
  \/ \E w \in WorkerIds, j \in JobIds, m \in RaceMessages :
        InSync /\ fail_job_exists(1, w, j, m, MaxEquivOps)
  \/ fail_job_read(1)
  \/ fail_job_write(1)
  \/ fail_job_unlink(1)
  \/ local_claim_job
  \/ local_complete_job
  \/ local_fail_job

SpecEquiv == InitEquiv /\ [][EquivNext]_vars

----------------------------------------------------------------------------
(* The file server behind its validation: caller 2 is a client that sends one
   request at a time, caller 1 the handler that serves it. Every handler
   begins with verify_api_key; the queue handlers go on with
   get_queue_paths(queue_type). *)
MaxFacadeOps == 3
\* queue_type in ["audio", "video"]
get_queue_paths(queue_type) == queue_type \in {"audio", "video"}

FacadeKeys == {"wrong", API_KEY}
\* the queue, worker or counter type of the path; the queue and the worker
\* directory modelled are those of "audio"
FacadeTypes == {"audio", "bogus"}
\* a worker_type that is a path component, and the worker ids sent with it
StatTypes == FacadeTypes \cup {".."}
StatRequests == [worker_id : {"w", "counters"}, stat : {"jobs_completed", "bogus"}]
HeartbeatRequests ==
  [worker_id : {"w"}, status : {"online", "busy"}, hostname : {None}, gpu_model : {None},
   current_job : {None, "a"}]
Envelopes ==
  [endpoint : {"create_job", "claim_job", "get_queue_stats", "increment_counter"},
   x_api_key : FacadeKeys, type : FacadeTypes, param : {None}]
  \cup [endpoint : {"update_job_status"}, x_api_key : FacadeKeys, type : FacadeTypes,
        param : {"completed", "processing"}]
  \cup [endpoint : {"worker_heartbeat"}, x_api_key : FacadeKeys, type : FacadeTypes,
        param : HeartbeatRequests]
  \cup [endpoint : {"increment_worker_stat"}, x_api_key : FacadeKeys, type : StatTypes,
        param : StatRequests]

\* what the client saw of the server's files when it sent the request
Snapshot == <<store, counters, workers>>

client_send(envelope) ==
  /\ Idle(1) /\ Idle(2)
  /\ ghost.nops < MaxFacadeOps
  /\ pc' = [pc EXCEPT ![2] = "sent"]
  /\ call' = [call EXCEPT ![2] = [op |-> "request", worker_id |-> "", job_id |-> "",
                                   arg |-> [envelope |-> envelope, seq |-> ghost.nops]]]
  /\ loc' = [loc EXCEPT ![2] = [NoLoc EXCEPT !.data = Snapshot]]
  /\ ret' = [ret EXCEPT ![2] = NoRet]
  /\ UNCHANGED <<store, clock, counters, flock, worker, local_queue, workers, ghost>>

\* the request of the client has reached the server and no handler has run
Arrived(endpoint) ==
  /\ pc[2] = "sent" /\ call[2].arg.seq = ghost.nops
  /\ call[2].arg.envelope.endpoint = endpoint

\* raise HTTPException(status_code): the client gets the answer at once
Refuse(status_code) ==
  /\ pc' = [pc EXCEPT ![2] = "done"]
  /\ ret' = [ret EXCEPT ![2] = [status |-> status_code, job |-> Empty]]
  /\ UNCHANGED <<store, clock, call, loc, counters, flock, worker, local_queue, workers, ghost>>

facade_create_job ==
  /\ Arrived("create_job")
  /\ LET e == call[2].arg.envelope
     IN IF ~verify_api_key(e.x_api_key) THEN Refuse("401")
        ELSE IF ~get_queue_paths(e.type) THEN Refuse("400")
        ELSE \E payload \in RacePayloads : create_job(1, "", payload, UuidPool, MaxFacadeOps)

facade_claim_job ==
  /\ Arrived("claim_job")
  /\ LET e == call[2].arg.envelope
     IN IF ~verify_api_key(e.x_api_key) THEN Refuse("401")
        ELSE IF ~get_queue_paths(e.type) THEN Refuse("400")
        ELSE claim_job_list(1, "w", MaxFacadeOps)

facade_update_job_status ==
  /\ Arrived("update_job_status")
  /\ LET e == call[2].arg.envelope
     IN IF ~verify_api_key(e.x_api_key) THEN Refuse("401")
        ELSE IF ~get_queue_paths(e.type) THEN Refuse("400")
        ELSE update_job_status_find(1, "a", e.param, MaxFacadeOps)

facade_get_queue_stats ==
  /\ Arrived("get_queue_stats")
  /\ LET e == call[2].arg.envelope
     IN IF ~verify_api_key(e.x_api_key) THEN Refuse("401")
        ELSE IF ~get_queue_paths(e.type) THEN Refuse("400")
        ELSE get_queue_stats(1, MaxFacadeOps)

facade_increment_counter ==
  /\ Arrived("increment_counter")
  /\ LET e == call[2].arg.envelope
     IN IF ~verify_api_key(e.x_api_key) THEN Refuse("401")
        ELSE increment_counter_open(1, e.type, MaxFacadeOps)

facade_worker_heartbeat ==
  /\ Arrived("worker_heartbeat")
  /\ LET e == call[2].arg.envelope
     IN IF ~verify_api_key(e.x_api_key) THEN Refuse("401")
        ELSE worker_heartbeat(1, e.type, e.param, MaxFacadeOps)

facade_increment_worker_stat ==
  /\ Arrived("increment_worker_stat")
  /\ LET e == call[2].arg.envelope
     IN IF ~verify_api_key(e.x_api_key) THEN Refuse("401")
        ELSE increment_worker_stat(1, e.type, e.param.worker_id, e.param.stat, MaxFacadeOps)

\* the status code of the answer
StatusCode(status) ==
  CASE status \in {"ok", "job", "null"} -> "200"
    [] status = "invalid" -> "400"
    [] status = "notfound" -> "404"
    [] OTHER -> "500"

\* the handler has returned or raised: the client gets the answer
client_receive ==
  /\ pc[2] = "sent" /\ call[2].arg.seq + 1 = ghost.nops /\ pc[1] = "done"
  /\ pc' = [pc EXCEPT ![2] = "done"]
  /\ ret' = [ret EXCEPT ![2] = [status |-> StatusCode(ret[1].status), job |-> ret[1].job]]
  /\ UNCHANGED <<store, clock, call, loc, counters, flock, worker, local_queue, workers, ghost>>

\* one job is pending and reset_counters has written counters.json
InitFacade ==
  /\ pending = DefaultJob
  /\ ghost = [InitGhost EXCEPT !.enq["a"] = 1]
  /\ processing = Empty /\ completed = Empty /\ failed = Empty
  /\ clock = 4
  /\ counters = Put(ZeroCounters, "updated_at", 3) /\ flock = 0
  /\ worker = NoWorker
  /\ local_queue = NoQueue
  /\ workers = Empty
  /\ pc = [p \in AllProcs |-> "idle"]
  /\ call = [p \in AllProcs |-> NoCall]
  /\ loc = [p \in AllProcs |-> NoLoc]
  /\ ret = [p \in AllProcs |-> NoRet]

FacadeNext ==
  \/ \E envelope \in Envelopes : client_send(envelope)
  \/ facade_create_job
  \/ facade_claim_job
  \/ claim_job_read(1)
  \/ claim_job_rename(1)
  \/ claim_job_write(1)
  \/ facade_update_job_status
  \/ update_job_status_read(1)
  \/ update_job_status_write(1)
  \/ update_job_status_unlink(1)
  \/ facade_get_queue_stats
  \/ facade_increment_counter
  \/ increment_counter_lock(1)
  \/ increment_counter_read(1)
  \/ increment_counter_write(1)
  \/ facade_worker_heartbeat
  \/ facade_increment_worker_stat
  \/ client_receive

SpecFacade == InitFacade /\ [][FacadeNext]_vars

----------------------------------------------------------------------------
(* Stats next to the queue: caller 1 enqueues, claims, completes and fails
   for worker "w", caller 2 asks GET /queue/{type}/stats at any moment, also
   between two filesystem calls of caller 1 *)
MaxStatsOps == 4
StatsSupplied == {"a"}
StatsUuids == {"b"}
StatsNext ==
  \/ \E supplied \in StatsSupplied \cup {""} :
        create_job(1, supplied, [priority |-> -1, retry_count |-> -1, created_at |-> -1],
                   StatsUuids, MaxStatsOps)
  \/ claim_job_list(1, WORKER_ID, MaxStatsOps)
  \/ claim_job_read(1)
  \/ claim_job_rename(1)
  \/ claim_job_write(1)
  \/ \E j \in StatsSupplied \cup StatsUuids, l \in RaceLinks :
        complete_job_exists(1, WORKER_ID, j, l, MaxStatsOps)
  \/ complete_job_read(1)
  \/ complete_job_write(1)
  \/ complete_job_unlink(1)
  \/ \E j \in StatsSupplied \cup StatsUuids, m \in RaceMessages :
        fail_job_exists(1, WORKER_ID, j, m, MaxStatsOps)
  \/ fail_job_read(1)
  \/ fail_job_write(1)
  \/ fail_job_unlink(1)
  \/ get_queue_stats(2, MaxStatsOps)

SpecStats == InitFrom({DefaultJob}, {FALSE}) /\ [][StatsNext]_vars

----------------------------------------------------------------------------
(* Properties *)

\* a file whose content is not a JSON document
Malformed(content) == "corrupt" \in DOMAIN content

\* the callers whose claim_job call has returned job j
Winners(j) ==
  {p \in AllProcs : call[p].op = "claim" /\ ret[p].status = "job" /\ ret[p].job["job_id"] = j}

\* C1: in the claim race, whatever the interleaving of the listings, reads,
\* renames and rewrites, at most one claim_job call returns a given job.
C1_MutualExclusion == \A j \in JobIds : Cardinality(Winners(j)) <= 1

\* a caller got the job while another, which had read the same pending file,
\* found it gone at its rename
W_C1 ==
  \E p \in Claimers, q \in Claimers, j \in JobIds :
     p # q /\ p \in Winners(j) /\ j \in ghost.lost /\ ret[q].status = "null"

\* the directories that hold a file of job j (a file is the job's when the
\* document in it carries that job_id)
Holds(dir, j) == \E n \in DOMAIN dir : ~Malformed(dir[n]) /\ Get(dir[n], "job_id", "") = j
InPending(j) == Holds(pending, j)
InProcessing(j) == Holds(processing, j)
InCompleted(j) == Holds(completed, j)
InFailed(j) == Holds(failed, j)
Places(j) ==
  {d \in {"pending", "processing", "completed", "failed"} :
     \/ d = "pending" /\ InPending(j)
     \/ d = "processing" /\ InProcessing(j)
     \/ d = "completed" /\ InCompleted(j)
     \/ d = "failed" /\ InFailed(j)}

\* C2: every job that was enqueued has a file in at least one of the four
\* directories, in every reachable state of the concurrent handlers.
C2_NoLoss == \A j \in JobIds : ghost.enq[j] > 0 => Places(j) # {}

\* C3: no job (enqueued once, so that its id names one job) has files in two
\* of the four directories at once, the states inside complete_job and
\* fail_job and those left by a crash included.
C3_NoDuplicate == \A j \in JobIds : ghost.enq[j] = 1 => Cardinality(Places(j)) <= 1

\* exactly one job was pending and exactly two callers, under different
\* worker ids, have run claim_job to its end
TwoClaimsDone(p, q, j) ==
  /\ p # q
  /\ {i \in JobIds : ghost.enq[i] > 0} = {j}
  /\ ghost.nops = 2
  /\ pc[p] = "done" /\ pc[q] = "done"
  /\ call[p].worker_id # call[q].worker_id

\* C4: one pending job and two workers claiming at the same time: exactly one
\* call returns the job, the other returns null, and the job is then in
\* processing/ under the winner's id only.
C4_ScenarioB ==
  \A p \in Claimers, q \in Claimers, j \in JobIds :
     TwoClaimsDone(p, q, j) =>
        \E win \in {p, q} :
           LET lose == IF win = p THEN q ELSE p
               name == FileName(call[win].worker_id, j)
           IN /\ ret[win].status = "job" /\ ret[win].job["job_id"] = j
              /\ ret[lose].status = "null"
              /\ DOMAIN processing = {name}
              /\ processing[name] = ret[win].job
              /\ Get(processing[name], "worker_id", "") = call[win].worker_id
              /\ ~InPending(j) /\ ~InCompleted(j) /\ ~InFailed(j)

\* both calls had listed and read the job before either renamed it
W_C4 ==
  \E p \in Claimers, q \in Claimers, j \in JobIds :
     TwoClaimsDone(p, q, j) /\ ret[p].status = "job" /\ j \in ghost.lost

\* C6: complete_job and fail_job act only on a processing file that the
\* calling worker_id claimed for that job_id; any other call reports not-found
\* and changes nothing.
C6_Ownership == ghost.foreign = {}

\* the latest handler invocation is a call of op by caller p
Called(p, op) == ghost'.nops = ghost.nops + 1 /\ ghost'.by = p /\ call'[p].op = op
Returned(p, op, status) ==
  pc[p] = "done" /\ ghost.by = p /\ call[p].op = op /\ ret[p].status = status

\* C5: a job enqueued with retry_count 0, failed by the worker that had just
\* claimed it: after the k-th fail it is in pending/ with retry_count k when
\* k < 3, and in failed/ with status failed, retry_count 3 and the message of
\* that last fail when k = 3; completed after two fails it is in completed/.
C5_RetryBound ==
  LET k == ghost.nfail["a"] IN
  /\ Returned(1, "fail", "ok") =>
       IF k < 3
       THEN /\ Places("a") = {"pending"}
            /\ pending["a"]["retry_count"] = k
       ELSE /\ k = 3
            /\ Places("a") = {"failed"}
            /\ failed["a"]["status"] = "failed"
            /\ failed["a"]["retry_count"] = 3
            /\ failed["a"]["error_message"] = call[1].arg["error_message"]
  /\ (Returned(1, "complete", "ok") /\ k = 2) =>
       /\ Places("a") = {"completed"}
       /\ completed["a"]["retry_count"] = 2

\* the third fail has just returned
W_C5 == Returned(1, "fail", "ok") /\ ghost.nfail["a"] = 3 /\ "a" \in DOMAIN failed

Priority(job) == Get(job, "priority", 0)
\* job d is claimed no later than job e: higher priority, or equal and not younger
Before(d, e) ==
  \/ Priority(d) > Priority(e)
  \/ Priority(d) = Priority(e) /\ d["created_at"] <= e["created_at"]

\* C7: with one caller at a time, the job a claim returns has the highest
\* priority among the parseable pending jobs and the oldest created_at among
\* those; so, while no job has been failed back, jobs come out in the order
\* priority descending, created_at ascending ([0,5,0] as A,B,C gives B,A,C).
C7_ClaimOrder ==
  /\ Returned(1, "claim", "job") =>
       \A n \in DOMAIN pending : ~Malformed(pending[n]) => Before(ret[1].job, pending[n])
  /\ (\A j \in JobIds : ghost.nfail[j] = 0) =>
       \A i \in 1..Len(ghost.log), k \in 1..Len(ghost.log) :
          i < k => Before(ghost.log[i], ghost.log[k])

\* "a", "b", "x_a" enqueued in this order with priorities none, 5, none have
\* been claimed as b, a, x_a
W_C7 ==
  /\ Len(ghost.log) = 3
  /\ ghost.log[1]["job_id"] = "b" /\ Priority(ghost.log[1]) = 5
  /\ ghost.log[2]["job_id"] = "a" /\ Priority(ghost.log[2]) = 0
  /\ ghost.log[3]["job_id"] = "x_a" /\ Priority(ghost.log[3]) = 0
  /\ ghost.log[2]["created_at"] < ghost.log[3]["created_at"]

\* C8: a malformed file in pending/ is skipped by claim_job: the call ends with
\* a job or with null, a job it returns is a parsed one, it returns null only
\* when no parseable pending file is left, and the malformed file stays in
\* pending/ as it was.
C8_CorruptResilience ==
  /\ [](pc[1] = "done" /\ call[1].op = "claim" =>
          /\ ret[1].status \in {"job", "null"}
          /\ ret[1].status = "job" => ~Malformed(ret[1].job)
          /\ ret[1].status = "null" => \A n \in DOMAIN pending : Malformed(pending[n]))
  /\ [][\A n \in DOMAIN pending :
          Malformed(pending[n]) => n \in DOMAIN pending' /\ pending'[n] = pending[n]]_vars

\* a claim that listed the malformed file has returned a valid job
W_C8 ==
  /\ Returned(1, "claim", "job")
  /\ \E n \in DOMAIN pending : Malformed(pending[n])

\* C9: complete_job called again for a (worker_id, job_id) whose complete has
\* succeeded and whose processing file is gone reports not-found and leaves
\* completed/{job_id}.json and every other file as they were.
C9_SecondComplete ==
  [][\A p \in Procs :
       ( /\ Called(p, "complete")
         /\ <<call'[p].worker_id, call'[p].job_id>> \in ghost.completedBy
         /\ FileName(call'[p].worker_id, call'[p].job_id) \notin DOMAIN processing )
       => (ret'[p].status = "notfound" /\ pc'[p] = "done" /\ store' = store)]_vars

W_C9 ==
  \E p \in Procs :
     /\ Returned(p, "complete", "notfound")
     /\ <<call[p].worker_id, call[p].job_id>> \in ghost.completedBy
     /\ call[p].job_id \in DOMAIN completed

\* C10: create_job creates exactly one new file pending/{job_id}.json, job_id
\* fresh when the caller gave none, with retry_count 0 and created_at stamped
\* by the engine whatever the payload carries, and changes no other file.
C10_Enqueue ==
  [][\A p \in Procs : Called(p, "enqueue") =>
       LET id == ret'[p].job["job_id"] IN
       /\ IF call'[p].job_id = "" THEN id \notin UsedIds ELSE id = call'[p].job_id
       /\ id \notin DOMAIN pending
       /\ DOMAIN pending' = DOMAIN pending \cup {id}
       /\ \A n \in DOMAIN pending : pending'[n] = pending[n]
       /\ <<processing, completed, failed>>' = <<processing, completed, failed>>
       /\ pending'[id]["job_id"] = id
       /\ pending'[id]["retry_count"] = 0
       /\ pending'[id]["created_at"] = clock]_vars

\* the processing file of the call that caller p is running or has run
CallFile(p) == FileName(call[p].worker_id, call[p].job_id)
\* that file was claimed by the call's worker_id for the call's job_id
CallByOwner(p) ==
  /\ CallFile(p) \in DOMAIN ghost.owner
  /\ ghost.owner[CallFile(p)] = <<call[p].worker_id, call[p].job_id>>

\* C11: with one caller at a time, complete(job_id, w, gofile_link) on a job
\* that w holds ends with completed/{job_id}.json carrying completed_at, status
\* completed and the given gofile_link and with processing/{w}_{job_id}.json
\* gone; no step of the call touches pending/, failed/ or any other file of
\* processing/ and completed/.
C11_CompleteEffects ==
  /\ [](Returned(1, "complete", "ok") /\ CallByOwner(1) =>
          /\ call[1].job_id \in DOMAIN completed
          /\ "completed_at" \in DOMAIN completed[call[1].job_id]
          /\ Get(completed[call[1].job_id], "status", "") = "completed"
          /\ call[1].arg["gofile_link"] # "" =>
               Get(completed[call[1].job_id], "gofile_link", "") = call[1].arg["gofile_link"]
          /\ CallFile(1) \notin DOMAIN processing)
  /\ [][pc[1] \in {"complete_read", "complete_write", "complete_unlink"} =>
          /\ pending' = pending /\ failed' = failed
          /\ DOMAIN processing \ {CallFile(1)} = DOMAIN processing' \ {CallFile(1)}
          /\ \A n \in DOMAIN processing \ {CallFile(1)} : processing'[n] = processing[n]
          /\ DOMAIN completed \ {call[1].job_id} = DOMAIN completed' \ {call[1].job_id}
          /\ \A n \in DOMAIN completed \ {call[1].job_id} : completed'[n] = completed[n]]_vars

\* the owner's complete with a link has returned while other jobs are around
W_C11 ==
  /\ Returned(1, "complete", "ok") /\ CallByOwner(1)
  /\ call[1].arg["gofile_link"] = "https://x"
  /\ completed[call[1].job_id]["gofile_link"] = "https://x"
  /\ DOMAIN pending # {} /\ DOMAIN processing # {}

\* C12: with one caller at a time and the single job "a": a fail that brings
\* retry_count to k < 3 leaves the job in pending/a.json only, with status
\* pending, retry_count k and neither worker_id nor processing_started_at; a
\* claim by any worker never answers null while the job is pending, and the
\* job it returns is that job with the retry_count the fails gave it.
C12_RetryPath ==
  LET k == ghost.nfail["a"] IN
  /\ (Returned(1, "fail", "ok") /\ k < max_retries) =>
        /\ DOMAIN pending = {"a"} /\ DOMAIN processing = {} /\ DOMAIN failed = {}
        /\ pending["a"] = ret[1].job
        /\ Get(pending["a"], "status", "") = "pending"
        /\ Get(pending["a"], "retry_count", -1) = k
        /\ "worker_id" \notin DOMAIN pending["a"]
        /\ "processing_started_at" \notin DOMAIN pending["a"]
  /\ Returned(1, "claim", "null") => ~InPending("a")
  /\ Returned(1, "claim", "job") =>
        /\ ret[1].job["job_id"] = "a"
        /\ Get(ret[1].job, "retry_count", -1) = k
        /\ Get(ret[1].job, "worker_id", "") = call[1].worker_id

\* the job was failed once and claimed again by the worker that failed it
W_C12 ==
  /\ Returned(1, "claim", "job")
  /\ Len(ghost.log) = 2
  /\ ghost.log[1]["worker_id"] = ghost.log[2]["worker_id"]
  /\ ghost.log[2]["retry_count"] = 1 /\ ghost.log[2]["status"] = "pending"

\* the retry_count values stored for job j, over the four directories
RetryCounts(j) ==
  UNION { {Get(Dir(d)[n], "retry_count", 0) :
             n \in {m \in DOMAIN Dir(d) : ~Malformed(Dir(d)[m]) /\ Get(Dir(d)[m], "job_id", "") = j}} :
          d \in {"pending", "processing", "completed", "failed"} }
MaxOf(S) == CHOOSE x \in S : \A y \in S : y <= x

\* C13: no step of any operation makes the retry_count stored for a job
\* smaller than it was: while the job stays in the store, the largest stored
\* value never goes down.
C13_RetryMonotone ==
  [][\A j \in JobIds :
       (RetryCounts(j) # {} /\ RetryCounts(j)' # {}) =>
          MaxOf(RetryCounts(j)') >= MaxOf(RetryCounts(j))]_vars

\* C14: a job enqueued once that is in failed/ and no longer in pending/ or
\* processing/ is terminal: no step of enqueue, claim, complete or fail puts it
\* in pending/ or processing/ again, takes it out of failed/, or returns it
\* from a claim.
C14_FailedTerminal ==
  [][\A j \in JobIds :
       (InFailed(j) /\ ~InPending(j) /\ ~InProcessing(j) /\ ghost'.enq[j] = 1) =>
          /\ ~InPending(j)' /\ ~InProcessing(j)' /\ InFailed(j)'
          /\ \A p \in Procs :
               ~(pc[p] # "done" /\ pc'[p] = "done" /\ ret'[p].status = "job"
                 /\ ret'[p].job["job_id"] = j)]_vars

\* C15: a job whose record is in completed/ or failed/ is retained: after
\* every step of every operation its record is still in one of the four
\* directories.
C15_Retention ==
  [][\A j \in JobIds : (InCompleted(j) \/ InFailed(j)) => Places(j)' # {}]_vars

Inside(full_path) ==
  full_path = BASE_PATH \/ startswith(full_path, BASE_PATH \o <<"/">>)

\* C17: a request served by the facade touches only files inside the base
\* directory: a path built from request input (the files/ path, a job_id)
\* that resolves outside it is rejected with 403.
C17_PathConfinement ==
  \A p \in Procs :
     (pc[p] = "done" /\ call[p].op \in {"files", "enqueue_path"}) =>
        IF ret[p].status = "served" THEN Inside(ret[p].job.full_path)
        ELSE ret[p].status = "403"

\* caller p takes a step
Acts(p) == <<pc[p], call[p], loc[p], ret[p]>>' # <<pc[p], call[p], loc[p], ret[p]>>

\* C18: a job that a worker has claimed and then left alone stays in
\* processing/ under that worker's id: no step of an enqueue, claim, complete
\* or fail performed for another worker_id removes or changes its file.
C18_NoLease ==
  [][\A n \in DOMAIN processing, p \in Procs :
       ( /\ n \in DOMAIN ghost.owner
         /\ Get(processing[n], "worker_id", "") = ghost.owner[n][1]
         /\ Acts(p)
         /\ call'[p].op \in {"enqueue", "claim", "complete", "fail"}
         /\ call'[p].worker_id # ghost.owner[n][1] )
       => (n \in DOMAIN processing' /\ processing'[n] = processing[n])]_vars

\* C19: counter operations take effect one at a time: an increment returns
\* one more than the number of increments of its type completed since the
\* last completed reset, and when no counter operation is running the file
\* holds exactly that number for each type (no lost update, no repeated value).
C19_CounterSerialised ==
  /\ [][\A p \in Procs :
          (pc[p] = "inc_write" /\ pc'[p] = "done") =>
             ret'[p].job["value"] = ghost'.expect[call[p].arg["counter_type"]]]_vars
  /\ []((counters # NoFile /\ \A p \in Procs : Idle(p)) =>
          /\ ~Malformed(counters)
          /\ \A t \in CounterTypes : Get(counters, CounterKey(t), 0) = ghost.expect[t])

\* C20: a worker that has got a job from claim returns to idle only through
\* reporting_success or reporting_failure, having made exactly one complete or
\* fail call for that job, also when the payload lacks a field the pipeline
\* needs; from claiming it returns to idle only when claim gave no job.
C20_WorkerStateMachine ==
  [][(worker.state # "idle" /\ worker'.state = "idle") =>
        \/ worker.state = "claiming" /\ ret[1].status # "job"
        \/ /\ worker.state \in {"reporting_success", "reporting_failure"}
           /\ worker.calls = 1
           /\ call[1].op \in {"complete", "fail"}
           /\ call[1].job_id = worker.job["job_id"]]_vars

\* C21: claim_job loses no update: the document its last step leaves in
\* processing/{worker_id}_{job_id}.json is the document of the file it
\* renamed, with worker_id and processing_started_at set; a retry_count,
\* error_message and last_failed_at that a fail by another worker wrote to the
\* pending file after this claim had read it are still there.
C21_ClaimNoLostUpdate ==
  [][\A p \in Procs :
       ( /\ pc[p] = "claim_write" /\ pc'[p] = "done" /\ ret'[p].status = "job"
         /\ call[p].job_id \in JobIds /\ ghost.enq[call[p].job_id] = 1
         /\ CallFile(p) \in DOMAIN processing )
       => /\ CallFile(p) \in DOMAIN processing'
          /\ Get(processing'[CallFile(p)], "worker_id", "") = call[p].worker_id
          /\ "processing_started_at" \in DOMAIN processing'[CallFile(p)]
          /\ \A k \in DOMAIN processing[CallFile(p)] \ {"worker_id", "processing_started_at"} :
               /\ k \in DOMAIN processing'[CallFile(p)]
               /\ processing'[CallFile(p)][k] = processing[CallFile(p)][k]]_vars

\* C22: update_job_status never loses a job: when a call has returned
\* successfully the job has a file in the directory of new_status and in no
\* other directory, also when new_status is the status the job already had.
C22_StatusNoLoss ==
  Returned(1, "status", "ok") => Places(call[1].job_id) = {call[1].arg["new_status"]}

\* C23: a job enqueued with default fields is claimed at most max_retries
\* times, whatever the interleaving of the claims, completes and fails of
\* the callers; once it has been failed three times it is not pending again.
C23_BoundedRetry ==
  /\ Len(ghost.log) <= max_retries
  /\ ghost.nfail["a"] >= max_retries => ~InPending("a")

\* the processing files claimed under the running worker's id
Mine == {n \in DOMAIN processing : n \in DOMAIN ghost.owner /\ ghost.owner[n][1] = WORKER_ID}

\* C24: one job at a time: at most one file of processing/ belongs to the
\* running worker, and the worker sends no claim while a job it claimed
\* earlier is still in processing/ under its id.
C24_OneJobAtATime ==
  /\ [](Cardinality(Mine) <= 1)
  /\ [][(worker.state = "idle" /\ worker'.state = "claiming") => Mine = {}]_vars

\* process_job ends after a fail / after a complete or fail call
EndsAfterFailure == worker.state = "reporting_failure" /\ worker'.state = "idle"
EndsAfterReport ==
  worker.state \in {"reporting_success", "reporting_failure"} /\ worker'.state = "idle"

\* C25: in every worker variant an exception in the pipeline leads to a fail
\* call that carries the text of the exception, and then to an increment of
\* the worker's jobs_failed stat.
C25_FailurePath ==
  [][EndsAfterFailure =>
       /\ call[1].op = "fail" /\ call[1].job_id = worker.job["job_id"]
       /\ call[1].arg["error_message"] = worker.error
       /\ worker'.jobs_failed = worker.jobs_failed + 1]_vars

\* C26: in every worker variant no local temp file is left when process_job
\* ends, after a failure as well as after a success.
C26_TempCleanup == [][EndsAfterReport => worker'.temp = {}]_vars

\* C27: the worker loop runs until the operator interrupts it: no exception
\* raised while claiming or processing a job ends it.
C27_LoopGoesOn == worker.state # "stopped"

\* every status field stored in a file of directory d says d
StatusNames(dir, d) ==
  \A n \in DOMAIN dir : (~Malformed(dir[n]) /\ "status" \in DOMAIN dir[n]) => dir[n]["status"] = d

\* C28: in every state between two operations the status field stored inside
\* a job file names the directory that holds the file, after a claim and a
\* re-claim that follows a retry as after a complete and a fail.
C28_StatusConsistency ==
  Idle(1) =>
    /\ StatusNames(pending, "pending") /\ StatusNames(processing, "processing")
    /\ StatusNames(completed, "completed") /\ StatusNames(failed, "failed")

\* the name of a processing file begins with the worker_id and an underscore
NamedAfter(n, worker_id) ==
  /\ Len(n) > Len(worker_id) + 1
  /\ SubSeq(n, 1, Len(worker_id) + 1) = worker_id \o "_"

\* C29: in every state that no running operation is about to change (each
\* caller has returned or has died) each job file of processing/ records as
\* worker_id the worker its name begins with, and a processing_started_at; no
\* job file of pending/ carries a worker_id.
C29_WorkerBinding ==
  (\A p \in Procs : Idle(p)) =>
    /\ \A n \in DOMAIN processing :
         ~Malformed(processing[n]) =>
            /\ "worker_id" \in DOMAIN processing[n]
            /\ NamedAfter(n, processing[n]["worker_id"])
            /\ "processing_started_at" \in DOMAIN processing[n]
    /\ \A n \in DOMAIN pending : "worker_id" \notin DOMAIN pending[n]

\* the files of the store whose document carries job_id j, as <<directory, name>>
Carriers(j) ==
  UNION { {<<d, n>> : n \in {m \in DOMAIN Dir(d) :
                                ~Malformed(Dir(d)[m]) /\ Get(Dir(d)[m], "job_id", "") = j}} :
          d \in {"pending", "processing", "completed", "failed"} }

\* C30: job_id is unique and immutable: when no operation is running at most
\* one file of the store carries a given job_id, and the job_id inside a file
\* of pending/, completed/ or failed/ is the name of the file; an enqueue
\* whose payload supplies a job_id that a file of the store already carries
\* changes no file.
C30_JobIdUnique ==
  /\ []((\A p \in Procs : Idle(p)) =>
          /\ \A j \in JobIds : Cardinality(Carriers(j)) <= 1
          /\ \A d \in {"pending", "completed", "failed"} : \A n \in DOMAIN Dir(d) :
               ~Malformed(Dir(d)[n]) => Get(Dir(d)[n], "job_id", "") = n)
  /\ [][\A p \in Procs :
          (Called(p, "enqueue") /\ call'[p].job_id # "" /\ Carriers(call'[p].job_id) # {})
             => store' = store]_vars

\* the pending files a running claim_job call has listed and not yet given up
ClaimCandidates(p) == loc[p].files \cup {loc[p].jobs[i][1] : i \in 1..Len(loc[p].jobs)}

Timestamps == {"processing_started_at", "completed_at", "last_failed_at"}
Strip(doc) == [k \in DOMAIN doc \ Timestamps |-> doc[k]]
StripDir(dir) == [n \in DOMAIN dir |-> Strip(dir[n])]

\* what a call of the file server and the same call of LocalVideoQueue returned
SameResult(served, returned) ==
  \/ served.status = "none" /\ returned.status = "none"
  \/ served.status = "job" /\ returned.status = "job" /\ Strip(served.job) = Strip(returned.job)
  \/ served.status = "null" /\ returned.status = "null"
  \/ served.status = "ok" /\ returned.status = "true"
  \/ served.status = "notfound" /\ returned.status = "false"

\* C32: the two implementations agree: started on the same directories and
\* given the same claim, complete and fail calls one after the other, the
\* file server and LocalVideoQueue hold after every call the same files with
\* the same documents (instants aside) and have returned equivalent results:
\* the same job or none, success or not-found.
C32_EnginesAgree ==
  (InSync /\ Idle(1)) =>
     /\ StripDir(pending) = StripDir(local_queue.pending)
     /\ StripDir(processing) = StripDir(local_queue.processing)
     /\ StripDir(completed) = StripDir(local_queue.completed)
     /\ StripDir(failed) = StripDir(local_queue.failed)
     /\ SameResult(ret[1], local_queue.ret)

\* the request carries a bad API key, an invalid queue or worker type, or an
\* invalid status value
Invalid(e) ==
  \/ e.x_api_key # API_KEY
  \/ e.endpoint \in {"create_job", "claim_job", "update_job_status", "get_queue_stats",
                     "worker_heartbeat", "increment_worker_stat"}
     /\ e.type \notin {"audio", "video"}
  \/ e.endpoint = "update_job_status" /\ e.param \notin {"pending", "completed", "failed"}

\* C33: a request with a bad API key, an invalid queue or worker type or an
\* invalid status value is answered with a 4xx code, and the job store, the
\* worker records and the counters are then exactly what they were when the
\* request was sent.
C33_RejectedNoEffect ==
  (pc[2] = "done" /\ call[2].op = "request" /\ Invalid(call[2].arg.envelope)) =>
     /\ ret[2].status \in {"400", "401", "404"}
     /\ loc[2].data = <<store, counters, workers>>

\* C34: counters are created lazily: an increment of a valid type sent while
\* counters.json does not exist creates the file and returns 1, and an
\* increment that finds the file unparseable initialises it and returns 1.
C34_LazyCounter ==
  /\ [][\A p \in Procs :
          (Called(p, "increment") /\ call'[p].arg["counter_type"] \in CounterTypes
             /\ counters = NoFile) => ret'[p].status # "error"]_vars
  /\ [][\A p \in Procs :
          (pc[p] = "inc_read" /\ pc'[p] = "inc_write" /\ Malformed(counters)) =>
             loc'[p].data[CounterKey(call[p].arg["counter_type"])] = 1]_vars
  /\ [][\A p \in Procs :
          (pc[p] = "inc_write" /\ pc'[p] = "done") =>
             /\ ret'[p].status = "ok" /\ ~Malformed(counters') /\ counters' # NoFile
             /\ ret'[p].job["value"] = counters'[CounterKey(call[p].arg["counter_type"])]]_vars

\* the record of the worker process under workers/
MyRecord == workers[WorkerType(worker.variant)][WORKER_ID]
\* the worker has reported worker.job and is back in its main loop
HasReported == worker.state = "idle" /\ worker.calls >= 1

\* C35: current_job follows the worker's state: after the worker has finished
\* a job and sent the heartbeat status=online, current_job=None, its record
\* names no current job, and a record with status online never shows the id
\* of a job the worker has already reported.
C35_CurrentJobFollows ==
  /\ [][(worker.state \in {"reporting_success", "reporting_failure"} /\ worker'.state = "idle") =>
          /\ MyRecord'["status"] = "online"
          /\ "current_job" \notin DOMAIN MyRecord']_vars
  /\ [](HasReported /\ MyRecord["status"] = "online" =>
          Get(MyRecord, "current_job", None) # worker.job["job_id"])

\* the complete calls of the worker that moved a job into completed/
MovedToCompleted == {c \in ghost.completedBy : c[1] = WORKER_ID}

\* C36: jobs_completed counts real completions: the stat never exceeds the
\* number of jobs the worker moved into completed/, and a complete that
\* reports not-found adds nothing to it.
C36_CountsRealCompletions ==
  /\ [](MyRecord["jobs_completed"] <= Cardinality(MovedToCompleted))
  /\ [][(worker.state = "reporting_success" /\ worker'.state = "idle" /\ ret[1].status = "notfound") =>
          MyRecord'["jobs_completed"] = MyRecord["jobs_completed"]]_vars

\* the record a heartbeat or an increment names, before and after the step
Record(dirs, p) == dirs[call'[p].arg.worker_type][call'[p].worker_id]
Recorded(p) == HasRecord(workers, call'[p].arg.worker_type, call'[p].worker_id)

\* C37: the first heartbeat for a worker_id creates its record with
\* jobs_completed = 0 and jobs_failed = 0; every later heartbeat updates status
\* and last_heartbeat in place and leaves jobs_completed and jobs_failed
\* unchanged; a stat increment for a worker with no record is rejected (404)
\* and creates none.
C37_RecordLifecycle ==
  [][\A p \in Procs :
       /\ (Called(p, "heartbeat") /\ ret'[p].status = "ok" /\ ~Recorded(p)) =>
             /\ Record(workers', p)["jobs_completed"] = 0
             /\ Record(workers', p)["jobs_failed"] = 0
       /\ (Called(p, "heartbeat") /\ ret'[p].status = "ok" /\ Recorded(p)) =>
             /\ Record(workers', p)["status"] = call'[p].arg.request.status
             /\ Record(workers', p)["last_heartbeat"] = clock
             /\ \A k \in DOMAIN Record(workers, p) \ {"status", "last_heartbeat", "current_job"} :
                   k \in DOMAIN Record(workers', p) /\ Record(workers', p)[k] = Record(workers, p)[k]
       /\ (Called(p, "increment_stat") /\ call'[p].arg.stat \in Stats /\ ~Recorded(p)) =>
             /\ ret'[p].status = "notfound"
             /\ workers' = workers]_vars

\* a job that fail_job has returned to pending/
Retried(job) == "last_failed_at" \in DOMAIN job /\ Get(job, "status", "") = "pending"
\* job e has the priority of job d and was enqueued after it
QueuedBehind(d, e) == Priority(d) = Priority(e) /\ d["created_at"] < e["created_at"]

\* C38: a retried job keeps its place: the file fail_job writes into pending/
\* has the priority and the created_at of the file it read in processing/, so
\* with one caller at a time a claim never returns a job while a retried job
\* of equal priority enqueued before it waits in pending/.
C38_RetriedKeepsPlace ==
  /\ [][(pc[1] = "fail_write" /\ pc'[1] = "fail_unlink" /\ loc[1].data["status"] = "pending") =>
          LET read == processing[FileName(call[1].worker_id, call[1].job_id)]
              written == pending'[call[1].job_id]
          IN /\ written["created_at"] = read["created_at"]
             /\ ("priority" \in DOMAIN written) = ("priority" \in DOMAIN read)
             /\ Priority(written) = Priority(read)]_vars
  /\ [](Returned(1, "claim", "job") =>
          \A n \in DOMAIN pending :
             (~Malformed(pending[n]) /\ Retried(pending[n])) => ~QueuedBehind(pending[n], ret[1].job))

\* a claim has returned the retried job "a" while "b", of the same priority
\* and enqueued after it, stays in pending/
W_C38 ==
  /\ Returned(1, "claim", "job")
  /\ ret[1].job["job_id"] = "a" /\ "last_failed_at" \in DOMAIN ret[1].job
  /\ "b" \in DOMAIN pending /\ QueuedBehind(ret[1].job, pending["b"])

\* the job ids that have a file in the store
JobsInStore ==
  UNION {{Dir(d)[n]["job_id"] : n \in DOMAIN Dir(d)} :
           d \in {"pending", "processing", "completed", "failed"}}

\* C39: stats is a pure read: it returns, for pending, processing, completed
\* and failed, the number of job files in that directory and total equal to
\* the sum of the four, and it changes nothing in the store; with no operation
\* running concurrently, total equals the number of jobs in the store.
C39_StatsPureRead ==
  [][\A p \in Procs :
       Called(p, "stats") =>
          /\ ret'[p].status = "ok"
          /\ \A d \in {"pending", "processing", "completed", "failed"} :
                ret'[p].job[d] = Cardinality(DOMAIN Dir(d))
          /\ ret'[p].job["total"] = ret'[p].job["pending"] + ret'[p].job["processing"]
                                       + ret'[p].job["completed"] + ret'[p].job["failed"]
          /\ UNCHANGED store
          /\ (\A q \in Procs \ {p} : Idle(q)) =>
                ret'[p].job["total"] = Cardinality(JobsInStore)]_vars

====
